---- MODULE Spec2Model ----
(***************************************************************************)
(* Smart Delivery Route Optimizer: the delivery pipeline                   *)
(* (utils/deliveryRouteOptimizer.ts), the geocoding chain                  *)
(* (utils/geocoding.ts), the 2-opt refiner of the plain pipeline           *)
(* (utils/routeOptimizer.ts) and the ingestion step of the                 *)
(* DeliveryRouteOptimization component.                                    *)
(*                                                                         *)
(* Numbers.  JavaScript numbers are modelled by integers in fixed units:   *)
(* distances in metres (km * 1000), durations in seconds (minutes * 60),   *)
(* priority scores in hundredths, combined scores in thousandths.  An      *)
(* optional value (a field that may be undefined, a geocoding result that  *)
(* may be null) is a sequence of length 0 or 1.  Coordinates lie on one    *)
(* meridian and latitudes are counted in kilometres of arc, so that the    *)
(* haversine distance of two points is the absolute difference of their    *)
(* latitudes.                                                              *)
(***************************************************************************)
EXTENDS Integers, Sequences, FiniteSets, TLC

\* ------------------------------------------------------------------ bounds

\* longest request list handed to one run of the engine
MaxLen == 4
\* longest request list of each of two concurrent runs
MaxConcLen == 2
\* number of addresses of a refiner input
MaxRoute == 5
\* longest freely chosen spreadsheet of the component
MaxRows == 2

\* ------------------------------------------------------- program constants

MaxDeliveries == 25
DefaultServiceMinutes == 5

\* ----------------------------------------------------------------- helpers

None == <<>>
Some(x) == <<x>>
IsSome(o) == Len(o) > 0
Val(o) == o[1]

Abs(x) == IF x < 0 THEN -x ELSE x
Min2(a, b) == IF a < b THEN a ELSE b
Max2(a, b) == IF a > b THEN a ELSE b
MinOf(S) == CHOOSE x \in S : \A y \in S : x <= y

\* Math.round(a / b) for b > 0: the nearest integer, halves towards +Infinity
RoundDiv(a, b) == (2 * a + b) \div (2 * b)

RECURSIVE SumSeq(_)
SumSeq(s) == IF s = <<>> THEN 0 ELSE Head(s) + SumSeq(Tail(s))

RECURSIVE SeqsUpTo(_, _)
SeqsUpTo(S, n) ==
  IF n = 0 THEN {<<>>}
  ELSE LET shorter == SeqsUpTo(S, n - 1)
       IN shorter \cup {Append(s, x) : s \in {t \in shorter : Len(t) = n - 1}, x \in S}

Range(s) == {s[k] : k \in 1..Len(s)}

\* the sequences of up to n different members of S
RECURSIVE ListsUpTo(_, _)
ListsUpTo(S, n) ==
  IF n = 0 THEN {<<>>}
  ELSE LET shorter == ListsUpTo(S, n - 1)
       IN shorter \cup
          UNION {{Append(s, x) : x \in S \ Range(s)} :
                   s \in {t \in shorter : Len(t) = n - 1}}

\* the elements of s at the indices in keep, in order (Array.prototype.filter)
RECURSIVE FilterIndexed(_, _, _)
FilterIndexed(s, keep, i) ==
  IF i > Len(s) THEN <<>>
  ELSE (IF i \in keep THEN <<s[i]>> ELSE <<>>) \o FilterIndexed(s, keep, i + 1)

RemoveFrom(s, i) == SubSeq(s, 1, i - 1)

RemoveAt(s, i) == SubSeq(s, 1, i - 1) \o SubSeq(s, i + 1, Len(s))

\* -------------------------------------------------------------- address text

\* An address text is a sequence of characters.
Chars == {"A", "a", "B", "b", "C", "c", "D", "d", " "}

\* String.prototype.toLowerCase, character by character
LowerChar(c) ==
  CASE c = "A" -> "a" [] c = "B" -> "b" [] c = "C" -> "c" [] c = "D" -> "d"
    [] OTHER -> c

ToLowerCase(t) == [i \in 1..Len(t) |-> LowerChar(t[i])]

\* String.prototype.trim: white space dropped at both ends
RECURSIVE TrimStart(_)
TrimStart(t) == IF t # <<>> /\ Head(t) = " " THEN TrimStart(Tail(t)) ELSE t

RECURSIVE TrimEnd(_)
TrimEnd(t) ==
  IF t # <<>> /\ t[Len(t)] = " " THEN TrimEnd(SubSeq(t, 1, Len(t) - 1)) ELSE t

Trim(t) == TrimEnd(TrimStart(t))

\* a.original.toLowerCase().trim()
NormalizedText(t) == Trim(ToLowerCase(t))

\* ------------------------------------------------------------ deduplication

\* self.findIndex(a => normalized(a) === normalized(addr)), 1-based; 0 for -1
FindIndex(self, addr) ==
  LET hits == {j \in 1..Len(self) :
                 NormalizedText(self[j].original) = NormalizedText(addr.original)}
  IN IF hits = {} THEN 0 ELSE MinOf(hits)

UniqueKeepLast(addresses) ==
  FilterIndexed(addresses,
    {i \in 1..Len(addresses) :
       \A j \in (i + 1)..Len(addresses) :
         NormalizedText(addresses[j].original) # NormalizedText(addresses[i].original)},
    1)

\* addresses.filter((addr, index, self) => index === self.findIndex(...))
UniqueAddresses(addresses) ==
  FilterIndexed(addresses,
    {i \in 1..Len(addresses) : i = FindIndex(addresses, addresses[i])}, 1)

\* ---------------------------------------------------------------- geocoding

\* The world the geocoders answer from: the place of an address, by its
\* normalized text (latitude in km of arc on the meridian lng = 0).
PlaceOf(t) ==
  LET n == NormalizedText(t)
  IN CASE n = <<"a">> -> 0 [] n = <<"b">> -> 2 [] n = <<"c">> -> 1
       [] n = <<"d">> -> 3 [] OTHER -> 0

GeocodingResult(t) == [lat |-> PlaceOf(t), lng |-> 0, formatted |-> NormalizedText(t)]

\* what the Google geocoding call may do
GoogleOutcomes ==
  {"rejected", "http_error", "OK", "OK_no_results", "ZERO_RESULTS",
   "OVER_QUERY_LIMIT", "REQUEST_DENIED", "INVALID_REQUEST", "UNKNOWN_ERROR"}

\* what the OpenStreetMap call may do
OsmOutcomes == {"rejected", "http_error", "found", "empty"}

\* geocodeAddressOSM: a result, or null on an empty answer or any error
GeocodeAddressOSM(t, osm) ==
  IF osm = "found" THEN Some(GeocodingResult(t)) ELSE None

\* geocodeAddress: Google first when a key is configured, OpenStreetMap on
\* every failure but ZERO_RESULTS
GeocodeAddress(t, key, google, osm) ==
  IF ~key THEN GeocodeAddressOSM(t, osm)
  ELSE CASE google = "OK" -> Some(GeocodingResult(t))
         [] google = "ZERO_RESULTS" -> None
         [] OTHER -> GeocodeAddressOSM(t, osm)

\* -------------------------------------------------------------- travel cost

\* calculateHaversineDistance, in km.  All modelled points lie on one meridian
\* (lon1 = lon2), where the formula reduces to R * |dLat| * PI / 180; with
\* latitudes counted in km of arc that is |lat2 - lat1|.
CalculateHaversineDistance(lat1, lon1, lat2, lon2) == Abs(lat2 - lat1)

\* origin.coordinates?.lat || 0
LatOrZero(a) == IF IsSome(a.coordinates) THEN Val(a.coordinates).lat ELSE 0
LngOrZero(a) == IF IsSome(a.coordinates) THEN Val(a.coordinates).lng ELSE 0

FallbackCostFreeFlow(km) ==
  [duration |-> Some(km * 180), durationInTraffic |-> Some(km * 180),
   distance |-> Some(km * 1000), trafficLevel |-> "moderate"]

FallbackCostAt30Kmh(km) ==
  [duration |-> Some(km * 120), durationInTraffic |-> Some(km * 160),
   distance |-> Some(km * 1000), trafficLevel |-> "moderate"]

\* the closed-form estimate of a leg of km kilometres
FallbackCost(km) ==
  [duration |-> Some(km * 180), durationInTraffic |-> Some(km * 240),
   distance |-> Some(km * 1000), trafficLevel |-> "moderate"]

\* how an evaluation ends: with a value, or by throwing
Threw == [threw |-> TRUE, cost |-> None]
Returned(c) == [threw |-> FALSE, cost |-> Some(c)]

\* trafficRatio > 1.5 / 1.3 / 1.1 for trafficRatio = t / d (t, d >= 0):
\* t / 0 is Infinity for t > 0 and NaN for t = 0
LevelOfRatio(t, d) ==
  IF 2 * t > 3 * d THEN "severe"
  ELSE IF 10 * t > 13 * d THEN "heavy"
  ELSE IF 10 * t > 11 * d THEN "moderate"
  ELSE "light"

\* lines 44-50: the ratio is 1.2 without duration_in_traffic, and NaN (no
\* threshold exceeded) when a value it divides is undefined
TrafficLevelOf(element) ==
  IF ~IsSome(element.duration_in_traffic) THEN "moderate"
  ELSE LET t == Val(element.duration_in_traffic).value
           d == Val(element.duration).value
       IN IF IsSome(t) /\ IsSome(d) THEN LevelOfRatio(Val(t), Val(d)) ELSE "light"

\* element.duration_in_traffic?.value || element.duration.value
DurationInTrafficOf(element) ==
  IF IsSome(element.duration_in_traffic)
     /\ IsSome(Val(element.duration_in_traffic).value)
     /\ Val(Val(element.duration_in_traffic).value) # 0
  THEN Val(element.duration_in_traffic).value
  ELSE Val(element.duration).value

\* lines 28-60, the body of the try block: what it returns, or that it throws.
\* A response is [fetch, httpOk, body]; body is None when response.json()
\* rejects, else the parsed payload [status, rows], rows and each member of
\* the payload being optional as in any JSON document.
ProviderAttempt(origin, destination, resp) ==
  IF ~IsSome(origin.coordinates) \/ ~IsSome(destination.coordinates) THEN Threw
  ELSE IF resp.fetch = "rejected" THEN Threw
  ELSE IF ~resp.httpOk THEN Threw
  ELSE IF ~IsSome(resp.body) THEN Threw
  ELSE LET data == Val(resp.body) IN
    IF data.status # "OK" THEN Threw
    ELSE IF ~IsSome(data.rows) THEN Threw
    ELSE IF Val(data.rows) = <<>> THEN Threw
    ELSE IF ~IsSome(Val(data.rows)[1].elements) THEN Threw
    ELSE IF Val(Val(data.rows)[1].elements) = <<>> THEN Threw
    ELSE LET element == Val(Val(data.rows)[1].elements)[1] IN
      IF element.status # "OK" THEN Threw
      ELSE IF ~IsSome(element.duration) THEN Threw
      ELSE IF ~IsSome(element.distance) THEN Threw
      ELSE Returned([duration |-> Val(element.duration).value,
                     durationInTraffic |-> DurationInTrafficOf(element),
                     distance |-> Val(element.distance).value,
                     trafficLevel |-> TrafficLevelOf(element)])

\* lines 61-77, the catch block: it reads origin.coordinates.lat unguarded
CatchFallback(origin, destination) ==
  IF ~IsSome(origin.coordinates) \/ ~IsSome(destination.coordinates) THEN Threw
  ELSE Returned(FallbackCost(CalculateHaversineDistance(
         Val(origin.coordinates).lat, Val(origin.coordinates).lng,
         Val(destination.coordinates).lat, Val(destination.coordinates).lng)))

\* line 11: !apiKey || !origin.coordinates || !destination.coordinates
TakesFallback(origin, destination, key) ==
  ~key \/ ~IsSome(origin.coordinates) \/ ~IsSome(destination.coordinates)

\* calculateDistanceWithTraffic
CalculateDistanceWithTraffic(origin, destination, key, resp) ==
  IF TakesFallback(origin, destination, key)
  THEN Returned(FallbackCost(CalculateHaversineDistance(
         LatOrZero(origin), LngOrZero(origin),
         LatOrZero(destination), LngOrZero(destination))))
  ELSE LET try == ProviderAttempt(origin, destination, resp)
       IN IF try.threw THEN CatchFallback(origin, destination) ELSE try

\* ----------------------------------------------------------- priority score

PriorityBase(p) ==
  CASE p = "urgent" -> 100 [] p = "high" -> 75 [] p = "medium" -> 50
    [] p = "low" -> 25 [] OTHER -> 50

WindowBonusUnclamped(a, now) ==
  IF ~IsSome(a.timeWindow) THEN 0
  ELSE LET w == Val(a.timeWindow)
           windowStart == w.start[1] * 60 + w.start[2]
           windowEnd == w.end[1] * 60 + w.end[2]
       IN IF now >= windowStart /\ now <= windowEnd THEN 2500
          ELSE IF now < windowStart
               THEN 1500 - 10 * (windowStart - now)
               ELSE 0

\* the time window bonus, in hundredths; now and the window in minutes of day
WindowBonus(a, now) ==
  IF ~IsSome(a.timeWindow) THEN 0
  ELSE LET w == Val(a.timeWindow)
           windowStart == w.start[1] * 60 + w.start[2]
           windowEnd == w.end[1] * 60 + w.end[2]
       IN IF now >= windowStart /\ now <= windowEnd THEN 2500
          ELSE IF now < windowStart
               THEN Max2(0, 1500 - 10 * (windowStart - now))
               ELSE 0

CodBonusFlat(a) ==
  IF IsSome(a.cashOnDelivery) /\ Val(a.cashOnDelivery) > 0 THEN 2000 ELSE 0

\* Math.min(20, cashOnDelivery / 100), in hundredths
CodBonus(a) ==
  IF IsSome(a.cashOnDelivery) /\ Val(a.cashOnDelivery) > 0
  THEN Min2(2000, Val(a.cashOnDelivery))
  ELSE 0

\* calculatePriorityScore, in hundredths
CalculatePriorityScore(a, now) ==
  100 * PriorityBase(a.priority) + WindowBonus(a, now) + CodBonus(a)

\* -------------------------------------------------------- route constructor

RECURSIVE InsertBeforeEquals(_, _, _)
InsertBeforeEquals(sorted, a, now) ==
  IF sorted = <<>> THEN <<a>>
  ELSE IF CalculatePriorityScore(Head(sorted), now) > CalculatePriorityScore(a, now)
       THEN <<Head(sorted)>> \o InsertBeforeEquals(Tail(sorted), a, now)
       ELSE <<a>> \o sorted

\* [...addresses].sort((a, b) => score(b) - score(a)): the stable sort,
\* descending, as an insertion of each element after its equals
RECURSIVE InsertByScore(_, _, _)
InsertByScore(sorted, a, now) ==
  IF sorted = <<>> THEN <<a>>
  ELSE IF CalculatePriorityScore(Head(sorted), now) >= CalculatePriorityScore(a, now)
       THEN <<Head(sorted)>> \o InsertByScore(Tail(sorted), a, now)
       ELSE <<a>> \o sorted

RECURSIVE SortByPriority(_, _)
SortByPriority(s, now) ==
  IF s = <<>> THEN <<>>
  ELSE InsertByScore(SortByPriority(SubSeq(s, 1, Len(s) - 1), now), s[Len(s)], now)

\* lines 155-166: priorityScore * 0.6 + distanceScore * 0.4, in thousandths
CombinedScore(current, candidate, now) ==
  LET distance == CalculateHaversineDistance(
                    Val(current.coordinates).lat, Val(current.coordinates).lng,
                    Val(candidate.coordinates).lat, Val(candidate.coordinates).lng)
      distanceScore == Max2(0, 5000 - 200 * distance)
  IN 6 * CalculatePriorityScore(candidate, now) + 4 * distanceScore

BestIndexLastTie(current, remaining, now) ==
  LET scored == {i \in 1..Len(remaining) :
                   IsSome(current.coordinates) /\ IsSome(remaining[i].coordinates)}
      best == {i \in scored :
                 \A j \in scored : CombinedScore(current, remaining[j], now)
                                   <= CombinedScore(current, remaining[i], now)}
  IN IF scored = {} THEN 1 ELSE CHOOSE i \in best : \A j \in best : j <= i

\* lines 146-172: the index (1-based) of the first candidate with the highest
\* combined score; candidates without coordinates are skipped, and index 1
\* (bestIndex = 0) stays when all are
BestIndex(current, remaining, now) ==
  LET scored == {i \in 1..Len(remaining) :
                   IsSome(current.coordinates) /\ IsSome(remaining[i].coordinates)}
      best == {i \in scored :
                 \A j \in scored : CombinedScore(current, remaining[j], now)
                                   <= CombinedScore(current, remaining[i], now)}
  IN IF scored = {} THEN 1 ELSE MinOf(best)

RECURSIVE BuildRoute(_, _, _)
BuildRoute(route, remaining, now) ==
  IF remaining = <<>> THEN route
  ELSE LET b == BestIndex(route[Len(route)], remaining, now)
       IN BuildRoute(Append(route, remaining[b]), RemoveAt(remaining, b), now)

\* optimizeRouteAlgorithm
OptimizeRouteAlgorithm(addresses, now) ==
  IF Len(addresses) <= 2 THEN addresses
  ELSE LET prioritySorted == SortByPriority(addresses, now)
       IN BuildRoute(<<Head(prioritySorted)>>, Tail(prioritySorted), now)

\* ------------------------------------------------------------ load validator

Advice(text, n) == [text |-> text, n |-> n]

\* addr.packageWeight || 1
WeightOf(a) ==
  IF IsSome(a.packageWeight) /\ Val(a.packageWeight) # 0 THEN Val(a.packageWeight) ELSE 1

NearCapacityCrossMultiplied(totalWeight, availableCapacity) ==
  10 * totalWeight > 9 * availableCapacity

\* totalWeight / availableCapacity > 0.9, the quotient being Infinity or NaN
\* for a capacity of 0 and negative for a negative one
NearCapacity(totalWeight, availableCapacity) ==
  IF availableCapacity > 0 THEN 10 * totalWeight > 9 * availableCapacity
  ELSE IF availableCapacity = 0 THEN totalWeight > 0
  ELSE FALSE

ValidateAgainstMaxWeight(addresses, vehicle) ==
  LET totalWeight == SumSeq([i \in 1..Len(addresses) |-> WeightOf(addresses[i])])
      canCarry == totalWeight <= vehicle.maxWeight
  IN [canCarry |-> canCarry,
      totalWeight |-> totalWeight,
      recommendations |->
        (IF ~canCarry
         THEN <<Advice("Overweight by (tenths of kg)", 10 * (totalWeight - vehicle.maxWeight)),
                Advice("Consider multiple trips or larger vehicle", 0)>>
         ELSE <<>>)
        \o (IF NearCapacity(totalWeight, vehicle.maxWeight)
            THEN <<Advice("Near capacity limit - plan for fuel efficiency", 0)>>
            ELSE <<>>)]

\* validateVehicleLoad; the overage is kept in tenths of a kg (toFixed(1))
ValidateVehicleLoad(addresses, vehicle) ==
  LET totalWeight == SumSeq([i \in 1..Len(addresses) |-> WeightOf(addresses[i])])
      availableCapacity == vehicle.maxWeight - vehicle.currentLoad
      canCarry == totalWeight <= availableCapacity
  IN [canCarry |-> canCarry,
      totalWeight |-> totalWeight,
      recommendations |->
        (IF ~canCarry
         THEN <<Advice("Overweight by (tenths of kg)", 10 * (totalWeight - availableCapacity)),
                Advice("Consider multiple trips or larger vehicle", 0)>>
         ELSE <<>>)
        \o (IF NearCapacity(totalWeight, availableCapacity)
            THEN <<Advice("Near capacity limit - plan for fuel efficiency", 0)>>
            ELSE <<>>)]

\* ------------------------------------------------- route refiner (2-opt)

\* the distance of a pair without coordinates, or without a route (Infinity)
Infinity == 1000000

Plus(a, b) == IF a = Infinity \/ b = Infinity THEN Infinity ELSE a + b

\* allAddresses.indexOf(x), 1-based; 0 for -1
IndexOf(all, x) ==
  LET hits == {k \in 1..Len(all) : all[k] = x}
  IN IF hits = {} THEN 0 ELSE MinOf(hits)

TwoOptSwapThroughEnd(route, i, j) ==
  [k \in 1..Len(route) |->
     IF k >= i + 1 /\ k <= j + 2 THEN route[(i + 1) + (j + 2) - k] ELSE route[k]]

\* twoOptSwap: the segment route[i..j] (0-based, inclusive) reversed
TwoOptSwap(route, i, j) ==
  [k \in 1..Len(route) |->
     IF k >= i + 1 /\ k <= j + 1 THEN route[(i + 1) + (j + 1) - k] ELSE route[k]]

\* calculateTotalDistanceFromMatrix
RECURSIVE TotalFrom(_, _, _, _)
TotalFrom(route, all, matrix, k) ==
  IF k > Len(route) THEN 0
  ELSE Plus(matrix[IndexOf(all, route[k - 1])][IndexOf(all, route[k])],
            TotalFrom(route, all, matrix, k + 1))

CalculateTotalDistanceFromMatrix(route, all, matrix) == TotalFrom(route, all, matrix, 2)

AdoptsNotLonger(newRoute, bestRoute, all, matrix) ==
  CalculateTotalDistanceFromMatrix(newRoute, all, matrix)
    <= CalculateTotalDistanceFromMatrix(bestRoute, all, matrix)

AdoptsLonger(newRoute, bestRoute, all, matrix) ==
  CalculateTotalDistanceFromMatrix(newRoute, all, matrix)
    > CalculateTotalDistanceFromMatrix(bestRoute, all, matrix)

\* lines 131-132: the candidate is adopted when strictly shorter
Adopts(newRoute, bestRoute, all, matrix) ==
  CalculateTotalDistanceFromMatrix(newRoute, all, matrix)
    < CalculateTotalDistanceFromMatrix(bestRoute, all, matrix)

\* lines 127-137, one full pass from the pair (i, j) on: [route, improved]
RECURSIVE TwoOptPass(_, _, _, _, _, _)
TwoOptPass(best, improved, i, j, all, matrix) ==
  IF ~(i < Len(best) - 2) THEN [route |-> best, improved |-> improved]
  ELSE IF ~(j < Len(best) - 1) THEN TwoOptPass(best, improved, i + 1, i + 2, all, matrix)
  ELSE LET newRoute == TwoOptSwap(best, i, j)
       IN IF Adopts(newRoute, best, all, matrix)
          THEN TwoOptPass(newRoute, TRUE, i, j + 1, all, matrix)
          ELSE TwoOptPass(best, improved, i, j + 1, all, matrix)

RECURSIVE TwoOptWhile(_, _, _)
TwoOptWhile(best, all, matrix) ==
  LET pass == TwoOptPass(best, FALSE, 1, 2, all, matrix)
  IN IF pass.improved THEN TwoOptWhile(pass.route, all, matrix) ELSE pass.route

\* twoOptOptimization
TwoOptOptimization(route, all, matrix) ==
  IF Len(route) < 4 THEN route ELSE TwoOptWhile(route, all, matrix)

\* getDistanceMatrix on its haversine path (lines 23-33)
HaversineMatrix(origins, destinations) ==
  [a \in 1..Len(origins) |-> [b \in 1..Len(destinations) |->
     IF ~IsSome(origins[a].coordinates) \/ ~IsSome(destinations[b].coordinates)
     THEN Infinity
     ELSE CalculateHaversineDistance(
            Val(origins[a].coordinates).lat, Val(origins[a].coordinates).lng,
            Val(destinations[b].coordinates).lat, Val(destinations[b].coordinates).lng)]]

\* ------------------------------------------------------------------- inputs

Runs == {1, 2}

\* a DeliveryAddress as a caller builds it (no coordinates yet)
Request(original, priority, weight, cod, service) ==
  [id |-> 0, original |-> original, priority |-> priority, timeWindow |-> None,
   packageWeight |-> weight, cashOnDelivery |-> cod,
   estimatedDeliveryTime |-> service, coordinates |-> None, formatted |-> None]

\* the requests callers choose from: four places, and a second spelling of
\* the first one with other metadata
Catalog ==
  {Request(<<"A">>, "urgent", Some(1), Some(0), Some(5)),
   Request(<<"B">>, "high", Some(2), Some(200), Some(60)),
   Request(<<"c">>, "medium", None, None, Some(1)),
   Request(<<"D">>, "low", Some(3), Some(0), None),
   Request(<<" ", "a", " ">>, "low", Some(4), Some(0), Some(5))}

\* the caller numbers its requests
WithIds(s) == [i \in 1..Len(s) |-> [s[i] EXCEPT !.id = i]]

\* the lists of up to n requests, no catalogue entry twice
RequestLists(n) ==
  {WithIds(s) : s \in ListsUpTo(Catalog, n)}

Vehicle(maxWeight, currentLoad, fuelEfficiency) ==
  [maxWeight |-> maxWeight, currentLoad |-> currentLoad,
   fuelEfficiency |-> fuelEfficiency]

Vehicles == {Vehicle(25, 0, 35), Vehicle(5, 1, 40)}

\* a well-formed answer of the distance provider
Element(duration, inTraffic, distance) ==
  [status |-> "OK", duration |-> Some([value |-> Some(duration)]),
   duration_in_traffic |-> inTraffic, distance |-> Some([value |-> Some(distance)])]

Payload(status, rows) == [status |-> status, rows |-> rows]

Response(fetch, httpOk, body) == [fetch |-> fetch, httpOk |-> httpOk, body |-> body]

OkResponse(element) ==
  Response("ok", TRUE, Some(Payload("OK", Some(<<[elements |-> Some(<<element>>)]>>))))

\* what the distance provider answers to the legs of a run: a failure, a leg
\* half a minute faster in traffic than without, a leg delayed by 30 minutes
\* and 10 seconds, a leg without traffic data
LegResponses ==
  {Response("rejected", FALSE, None),
   OkResponse(Element(600, Some([value |-> Some(570)]), 5000)),
   OkResponse(Element(600, Some([value |-> Some(2410)]), 5000)),
   OkResponse(Element(300, None, 2500))}

\* ------------------------------------------------------------------- state

VARIABLES
  env,      \* the build and the clock: [apiKey, now]
  run,      \* per run: its arguments, its position and its locals
  acc,      \* per run: the accumulators of the metrics loop (lines 249-253)
  refiner,  \* a run of twoOptOptimization
  est,      \* a call of calculateDistanceWithTraffic
  calc      \* a call of one of the synchronous functions of the optimizer

vars == <<env, run, acc, refiner, est, calc>>

IdleRun ==
  [pc |-> "idle", rows |-> <<>>, addresses |-> <<>>, vehicle |-> Vehicle(25, 0, 35),
   uniqueAddresses |-> <<>>, geocodingResults |-> <<>>, geocodedAddresses |-> <<>>,
   failedAddresses |-> <<>>, loadValidation |-> None, optimizedAddresses |-> <<>>,
   i |-> 0, legs |-> <<>>, result |-> None, error |-> None]

NewRun(addresses, vehicle) ==
  [IdleRun EXCEPT !.pc = "start", !.addresses = addresses, !.vehicle = vehicle]

ZeroAcc ==
  [totalDistance |-> 0, totalTime |-> 0, totalTimeWithTraffic |-> 0,
   trafficDelayMinutes |-> 0, stops |-> <<>>]

IdleRefiner ==
  [pc |-> "idle", route |-> <<>>, all |-> <<>>, distanceMatrix |-> <<>>,
   bestRoute |-> <<>>, i |-> 0, j |-> 0, improved |-> FALSE, input |-> <<>>,
   application |-> 0]

IdleEst ==
  [pc |-> "idle", origin |-> Request(<<>>, "medium", None, None, None),
   destination |-> Request(<<>>, "medium", None, None, None),
   key |-> FALSE, resp |-> Response("rejected", FALSE, None), result |-> None]

IdleCalc ==
  [pc |-> "idle", fn |-> "none", addresses |-> <<>>, vehicle |-> Vehicle(25, 0, 35),
   route |-> <<>>, remaining |-> <<>>, result |-> None,
   results |-> <<>>, i |-> 0, wire |-> <<>>,
   isOptimizing |-> TRUE, optimizedRoute |-> None, error |-> None]

\* ------------------------------------------------- optimizeDeliveryRoute

AccShared(r) == 1

\* The accumulators are locals of the invocation (let/const inside the
\* function body): each run has its own.
Acc(r) == r

Fail(r, message) ==
  run' = [run EXCEPT ![r].pc = "failed", ![r].error = Some(message)]

\* lines 209-220: deduplicate, reject an empty list, start geocoding
Start(r) ==
  /\ run[r].pc = "start"
  /\ LET unique == UniqueAddresses(run[r].addresses)
     IN IF unique = <<>>
        THEN run' = [run EXCEPT ![r].pc = "failed",
                                ![r].uniqueAddresses = unique,
                                ![r].error = Some("No valid delivery addresses provided")]
        ELSE run' = [run EXCEPT ![r].pc = "geocoding",
                                ![r].uniqueAddresses = unique,
                                ![r].geocodingResults = <<>>]
  /\ UNCHANGED <<env, acc, refiner, est, calc>>

\* geocodeAddresses, one address: the next address string is resolved and the
\* outcome pushed; the list is returned after the last one
Geocode(r) ==
  /\ run[r].pc = "geocoding"
  /\ \E google \in GoogleOutcomes, osm \in OsmOutcomes :
       LET k == Len(run[r].geocodingResults) + 1
           result == GeocodeAddress(run[r].uniqueAddresses[k].original,
                                    env.apiKey, google, osm)
           results == Append(run[r].geocodingResults, result)
       IN run' = [run EXCEPT
                    ![r].geocodingResults = results,
                    ![r].pc = IF Len(results) = Len(run[r].uniqueAddresses)
                              THEN "geocoded" ELSE "geocoding"]
  /\ UNCHANGED <<env, acc, refiner, est, calc>>

\* lines 228-232: { ...address, coordinates, formatted }
Located(address, result) ==
  [address EXCEPT !.coordinates = Some([lat |-> result.lat, lng |-> result.lng]),
                  !.formatted = Some(result.formatted)]

GeocodedKeepAll(unique, results) ==
  [k \in 1..Len(unique) |->
     IF IsSome(results[k]) THEN Located(unique[k], Val(results[k])) ELSE unique[k]]

GeocodedCompacted(unique, results) ==
  LET ok == FilterIndexed([k \in 1..Len(unique) |-> k],
                          {k \in 1..Len(unique) : IsSome(results[k])}, 1)
  IN [n \in 1..Len(ok) |-> Located(unique[n], Val(results[ok[n]]))]

\* lines 222-236, geocodedAddresses: the located copies of the requests whose
\* result is not null
Geocoded(unique, results) ==
  LET ok == FilterIndexed([k \in 1..Len(unique) |-> k],
                          {k \in 1..Len(unique) : IsSome(results[k])}, 1)
  IN [n \in 1..Len(ok) |-> Located(unique[ok[n]], Val(results[ok[n]]))]

\* lines 222-236, failedAddresses
Failed(unique, results) ==
  LET bad == FilterIndexed([k \in 1..Len(unique) |-> k],
                           {k \in 1..Len(unique) : ~IsSome(results[k])}, 1)
  IN [n \in 1..Len(bad) |-> unique[bad[n]].original]

GivesUpWhenOverloaded(geocoded, load) == geocoded = <<>> \/ ~load.canCarry

\* lines 238-243: the run gives up when nothing was geocoded; the load
\* validation that follows is data, never a failure
GivesUp(geocoded, load) == geocoded = <<>>

ConstructedThenRefined(geocoded, now) ==
  TwoOptOptimization(OptimizeRouteAlgorithm(geocoded, now), geocoded,
                     HaversineMatrix(geocoded, geocoded))

\* line 246: the order of the stops
RouteOrder(geocoded, now) == OptimizeRouteAlgorithm(geocoded, now)

\* lines 222-246: after geocoding: merge, validate the load, construct
Merge(r) ==
  /\ run[r].pc = "geocoded"
  /\ LET geocoded == Geocoded(run[r].uniqueAddresses, run[r].geocodingResults)
         failed == Failed(run[r].uniqueAddresses, run[r].geocodingResults)
         load == ValidateVehicleLoad(geocoded, run[r].vehicle)
     IN IF GivesUp(geocoded, load)
        THEN run' = [run EXCEPT
               ![r].pc = "failed",
               ![r].geocodedAddresses = geocoded,
               ![r].failedAddresses = failed,
               ![r].error = Some("Could not geocode any delivery addresses")]
        ELSE run' = [run EXCEPT
               ![r].pc = "constructed",
               ![r].geocodedAddresses = geocoded,
               ![r].failedAddresses = failed,
               ![r].loadValidation = Some(load),
               ![r].optimizedAddresses = RouteOrder(geocoded, env.now)]
  /\ UNCHANGED <<env, acc, refiner, est, calc>>

\* address.estimatedDeliveryTime || 5
ServiceMinutes(address) ==
  IF IsSome(address.estimatedDeliveryTime) /\ Val(address.estimatedDeliveryTime) # 0
  THEN Val(address.estimatedDeliveryTime)
  ELSE DefaultServiceMinutes

\* lines 271-289: the stop of iteration i (0-based) given the totals so far;
\* times in seconds, distances in metres
Stop(address, i, trafficDelay, totals) ==
  [address |-> address,
   order |-> i + 1,
   estimatedDuration |-> ServiceMinutes(address),
   trafficDelay |-> trafficDelay,
   cumulativeDistance |-> totals.totalDistance,
   cumulativeTime |-> totals.totalTimeWithTraffic + i * ServiceMinutes(address) * 60]

\* lines 249-258 and 271-290 for i = 0: fresh totals, the first stop
BeginMetrics(r) ==
  /\ run[r].pc = "constructed"
  /\ acc' = [acc EXCEPT ![Acc(r)] =
               [ZeroAcc EXCEPT !.stops = <<Stop(run[r].optimizedAddresses[1], 0, 0, ZeroAcc)>>]]
  /\ run' = [run EXCEPT
               ![r].i = 1,
               ![r].pc = IF Len(run[r].optimizedAddresses) = 1 THEN "finish" ELSE "legs"]
  /\ UNCHANGED <<env, refiner, est, calc>>

\* lines 259-270 and 271-290: the totals grow by the leg, a stop is pushed
Advance(totals, trafficData, address, i) ==
  LET delay == Val(trafficData.durationInTraffic) - Val(trafficData.duration)
      grown == [totals EXCEPT
                  !.totalDistance = @ + Val(trafficData.distance),
                  !.totalTime = @ + Val(trafficData.duration),
                  !.totalTimeWithTraffic = @ + Val(trafficData.durationInTraffic),
                  !.trafficDelayMinutes = @ + delay]
  IN [grown EXCEPT !.stops = Append(totals.stops, Stop(address, i, delay, grown))]

\* lines 259-290 for i > 0: one leg is costed, the totals grow, a stop is pushed
Leg(r) ==
  /\ run[r].pc = "legs"
  /\ \E resp \in LegResponses :
       LET i == run[r].i
           previous == run[r].optimizedAddresses[i]
           address == run[r].optimizedAddresses[i + 1]
           call == CalculateDistanceWithTraffic(previous, address, env.apiKey, resp)
       IN IF call.threw
          THEN /\ Fail(r, "TypeError")
               /\ acc' = acc
          ELSE /\ acc' = [acc EXCEPT ![Acc(r)] =
                            Advance(acc[Acc(r)], Val(call.cost), address, i)]
               /\ run' = [run EXCEPT
                    ![r].i = i + 1,
                    ![r].legs = Append(@, [called |-> ~TakesFallback(previous, address, env.apiKey),
                                            resp |-> resp, cost |-> Val(call.cost)]),
                    ![r].pc = IF i + 1 = Len(run[r].optimizedAddresses)
                              THEN "finish" ELSE "legs"]
  /\ UNCHANGED <<env, refiner, est, calc>>

\* lines 301-315
Recommendations(load, totals, optimized) ==
  LET urgentDeliveries ==
        Cardinality({k \in 1..Len(optimized) : optimized[k].priority = "urgent"})
  IN load.recommendations
     \o (IF totals.trafficDelayMinutes > 30 * 60
         THEN <<Advice("Heavy traffic detected - consider alternative departure time", 0)>>
         ELSE <<>>)
     \o (IF Len(totals.stops) > 15
         THEN <<Advice("Large delivery batch - consider splitting into multiple routes", 0)>>
         ELSE <<>>)
     \o (IF urgentDeliveries > 0
         THEN <<Advice("urgent deliveries - prioritized in route", urgentDeliveries)>>
         ELSE <<>>)

\* lines 292-330: the route handed back.  totalDistance in hundredths of a km,
\* fuelCost in hundredths (1.5 per litre), times in minutes
RouteOf(totals, load, optimized, vehicle, now) ==
  [stops |-> totals.stops,
   totalDistance |-> RoundDiv(totals.totalDistance, 10),
   totalTime |-> RoundDiv(totals.totalTime, 60),
   totalTimeWithTraffic |-> RoundDiv(totals.totalTimeWithTraffic, 60),
   fuelCost |-> RoundDiv(3 * totals.totalDistance, 20 * vehicle.fuelEfficiency),
   priorityScore |->
     RoundDiv(SumSeq([k \in 1..Len(optimized) |-> CalculatePriorityScore(optimized[k], now)]),
              100 * Len(optimized)),
   loadUtilization |-> RoundDiv(100 * load.totalWeight, vehicle.maxWeight),
   trafficImpact |->
     [delayMinutes |-> RoundDiv(totals.trafficDelayMinutes, 60),
      alternativeRoutes |-> Min2(3, totals.trafficDelayMinutes \div 900)],
   recommendations |-> Recommendations(load, totals, optimized)]

Finish(r) ==
  /\ run[r].pc = "finish"
  /\ run' = [run EXCEPT
       ![r].pc = "done",
       ![r].result = Some(RouteOf(acc[Acc(r)], Val(run[r].loadValidation),
                                  run[r].optimizedAddresses, run[r].vehicle, env.now))]
  /\ UNCHANGED <<env, acc, refiner, est, calc>>

Engine(r) == Start(r) \/ Geocode(r) \/ Merge(r) \/ BeginMetrics(r) \/ Leg(r) \/ Finish(r)

\* --------------------------------- component: performOptimization, ingestion

\* a spreadsheet row: its cell in the address column and in the priority
\* column, each possibly undefined
Row(address, priority) == [address |-> address, priority |-> priority]

\* row[mapping.addressColumn] && row[mapping.addressColumn].trim()
HasAddress(row) ==
  IsSome(row.address) /\ Val(row.address) # <<>> /\ Trim(Val(row.address)) # <<>>

\* a priority cell is one word; toLowerCase on it
LowerWord(w) ==
  CASE w = "HIGH" -> "high" [] w = "Urgent" -> "urgent" [] w = "Low" -> "low"
    [] OTHER -> w

\* the key words a lower-cased cell contains (String.prototype.includes)
KeyWordsIn(w) ==
  CASE w = "highest" -> {"high"} [] w = "slow" -> {"low"} [] OTHER -> {w}

\* lines 49-59
NormalizePriority(cell) ==
  IF ~IsSome(cell) THEN "medium"
  ELSE LET Includes(p) == p \in KeyWordsIn(LowerWord(Val(cell)))
       IN IF \E p \in {"urgent", "high", "rush", "emergency"} : Includes(p) THEN "urgent"
          ELSE IF \E p \in {"high", "important"} : Includes(p) THEN "high"
          ELSE IF \E p \in {"low", "normal"} : Includes(p) THEN "low"
          ELSE "medium"

\* lines 46-92: the rows with an address, as requests.  The id of the request
\* at 1-based position k stands for `delivery-${k - 1}`; the mapping has an
\* address and a priority column only.
Prepared(rows) ==
  LET kept == FilterIndexed(rows, {i \in 1..Len(rows) : HasAddress(rows[i])}, 1)
  IN [index \in 1..Len(kept) |->
        [id |-> index,
         original |-> Trim(Val(kept[index].address)),
         priority |-> NormalizePriority(kept[index].priority),
         timeWindow |-> None,
         packageWeight |-> Some(1),
         cashOnDelivery |-> Some(0),
         estimatedDeliveryTime |-> Some(5),
         coordinates |-> None,
         formatted |-> None]]

TooManyAfterDedup(addresses) == Len(UniqueAddresses(addresses)) > MaxDeliveries

\* line 97: addresses.length > 25
TooMany(addresses) == Len(addresses) > MaxDeliveries

NoValidAddresses == "No valid delivery addresses found in the selected column"
TooManyAddresses == "Too many addresses. Please limit to 25 deliveries for optimal performance."

\* lines 46-113: the rows become requests; an empty or an oversized list is
\* refused, any other is handed to optimizeDeliveryRoute
Prepare(r) ==
  /\ run[r].pc = "prepare"
  /\ LET addresses == Prepared(run[r].rows)
     IN run' = [run EXCEPT
          ![r].addresses = addresses,
          ![r].pc = IF addresses = <<>> \/ TooMany(addresses) THEN "rejected" ELSE "start",
          ![r].error = IF addresses = <<>> THEN Some(NoValidAddresses)
                       ELSE IF TooMany(addresses) THEN Some(TooManyAddresses)
                       ELSE None]
  /\ UNCHANGED <<env, acc, refiner, est, calc>>

\* the rows sheets are made of: two spellings of one address, blank and
\* missing address cells, priorities in several spellings
RowCatalog ==
  {Row(Some(<<"A">>), Some("Urgent")),
   Row(Some(<<" ", "a", " ">>), Some("HIGH")),
   Row(Some(<<" ">>), Some("low")),
   Row(None, None),
   Row(Some(<<"B">>), None),
   Row(Some(<<"c">>), Some("normal"))}

AddressTexts == <<<<"A">>, <<"B">>, <<"c">>>>

\* n rows that repeat the first k address texts in turn
CyclicSheet(n, k) ==
  [i \in 1..n |-> Row(Some(AddressTexts[((i - 1) % k) + 1]), None)]

Letters == <<"a", "b", "c", "d">>

\* the i-th of 64 address texts, no two alike
TextNo(i) ==
  <<Letters[(((i - 1) \div 16) % 4) + 1], Letters[(((i - 1) \div 4) % 4) + 1],
    Letters[((i - 1) % 4) + 1]>>

\* n rows, no two with the same address
DistinctSheet(n) == [i \in 1..n |-> Row(Some(TextNo(i)), Some("low"))]

\* s with its first and last row blanked
BlankEnds(s) ==
  [i \in 1..Len(s) |-> IF i = 1 \/ i = Len(s) THEN Row(Some(<<" ">>), None) ELSE s[i]]

\* the sheets at the size limit: just below, at and above it, with few
\* addresses repeated, with blank rows, and with all addresses different
\* above it
LongSheets ==
  {CyclicSheet(n, k) : n \in (MaxDeliveries - 1)..(MaxDeliveries + 2), k \in 1..3}
    \cup {BlankEnds(CyclicSheet(n, 2)) : n \in (MaxDeliveries + 1)..(MaxDeliveries + 3)}
    \cup {DistinctSheet(n) : n \in (MaxDeliveries + 1)..(MaxDeliveries + 2)}

Sheets == SeqsUpTo(RowCatalog, MaxRows) \cup LongSheets

\* request lists at the size limit handed to optimizeDeliveryRoute directly
LongLists ==
  {Prepared(CyclicSheet(n, k)) : n \in MaxDeliveries..(MaxDeliveries + 2), k \in 2..3}

\* -------------------------------------- a call of the travel-cost estimator

\* the two ends of a leg: located requests (at km 0, 2 and 10 of a meridian),
\* and one without coordinates
Endpoints ==
  {[Request(<<"A">>, "urgent", None, None, None)
      EXCEPT !.coordinates = Some([lat |-> 0, lng |-> 0])],
   [Request(<<"B">>, "high", None, None, None)
      EXCEPT !.coordinates = Some([lat |-> 2, lng |-> 0])],
   [Request(<<"c">>, "medium", None, None, None)
      EXCEPT !.coordinates = Some([lat |-> 10, lng |-> 0])],
   Request(<<"D">>, "low", None, None, None)}

NoField == None
Field(v) == Some([value |-> v])

RawElement(status, duration, inTraffic, distance) ==
  [status |-> status, duration |-> duration, duration_in_traffic |-> inTraffic,
   distance |-> distance]

OkPayload(elements) == Some(Payload("OK", Some(<<[elements |-> elements]>>)))

\* what the distance provider may answer: failures of the call, refusals,
\* payloads that lack a part, and answers
CostResponses ==
  {Response("rejected", FALSE, None),
   Response("ok", FALSE, None),
   Response("ok", TRUE, None),
   Response("ok", TRUE, Some(Payload("OVER_QUERY_LIMIT", None))),
   Response("ok", TRUE, Some(Payload("REQUEST_DENIED", Some(<<>>)))),
   Response("ok", TRUE, Some(Payload("OK", None))),
   Response("ok", TRUE, Some(Payload("OK", Some(<<>>)))),
   Response("ok", TRUE, OkPayload(None)),
   Response("ok", TRUE, OkPayload(Some(<<>>))),
   Response("ok", TRUE, OkPayload(Some(<<RawElement("NOT_FOUND", NoField, NoField, NoField)>>))),
   Response("ok", TRUE, OkPayload(Some(<<RawElement("ZERO_RESULTS", NoField, NoField, NoField)>>))),
   Response("ok", TRUE, OkPayload(Some(<<RawElement("OK", NoField, NoField, Field(Some(1000)))>>))),
   Response("ok", TRUE, OkPayload(Some(<<RawElement("OK", Field(Some(600)), NoField, NoField)>>))),
   Response("ok", TRUE, OkPayload(Some(<<RawElement("OK", Field(None), NoField, Field(Some(1000)))>>))),
   Response("ok", TRUE, OkPayload(Some(<<RawElement("OK", Field(Some(600)), Field(Some(700)), Field(None))>>))),
   Response("ok", TRUE, OkPayload(Some(<<RawElement("OK", Field(Some(600)), Field(None), Field(Some(5000)))>>))),
   Response("ok", TRUE, OkPayload(Some(<<RawElement("OK", Field(Some(600)), Field(Some(0)), Field(Some(5000)))>>))),
   Response("ok", TRUE, OkPayload(Some(<<RawElement("OK", Field(Some(600)), Field(Some(960)), Field(Some(5000)))>>))),
   Response("ok", TRUE, OkPayload(Some(<<RawElement("OK", Field(Some(600)), Field(Some(720)), Field(Some(5000)))>>))),
   Response("ok", TRUE, OkPayload(Some(<<RawElement("OK", Field(Some(600)), NoField, Field(Some(5000)))>>))),
   Response("ok", TRUE, OkPayload(Some(<<RawElement("OK", Field(Some(0)), Field(Some(0)), Field(Some(0)))>>)))}

\* one call of calculateDistanceWithTraffic, from its invocation to its result
Estimate ==
  /\ est.pc = "call"
  /\ \E resp \in CostResponses :
       est' = [est EXCEPT
                 !.pc = "returned",
                 !.resp = resp,
                 !.result = Some(CalculateDistanceWithTraffic(est.origin, est.destination,
                                                             est.key, resp))]
  /\ UNCHANGED <<env, run, acc, refiner, calc>>

\* ------------------------------------------- a run of twoOptOptimization

\* the members of a route are addresses; address k is the k-th of allAddresses
Nodes(n) == [k \in 1..n |-> k]

RoutesOf(n) == {s \in ListsUpTo(1..n, n) : Len(s) = n}

\* where the addresses lie, in km along a line
Positions == <<0, 3, 1, 4, 2, 6, 5, 7>>

\* the distance matrices tried: the haversine one, one whose second address
\* has no coordinates, a one-way system, and one of equal distances
MatrixKinds == {"line", "gap", "oneway", "flat"}

MatrixOf(kind, n) ==
  [a \in 1..n |-> [b \in 1..n |->
     CASE kind = "line" -> Abs(Positions[a] - Positions[b])
       [] kind = "gap" -> IF a = 2 \/ b = 2 THEN Infinity
                          ELSE Abs(Positions[a] - Positions[b])
       [] kind = "oneway" -> IF a <= b THEN b - a ELSE 2 * (a - b) + 1
       [] OTHER -> IF a = b THEN 0 ELSE 1]]

\* line 119 and lines 121-122: a short route is returned as it is; else the
\* search starts from a copy of the route
RefStart ==
  /\ refiner.pc = "call"
  /\ refiner' = IF Len(refiner.route) < 4
                THEN [refiner EXCEPT !.pc = "returned", !.bestRoute = refiner.route]
                ELSE [refiner EXCEPT !.pc = "while", !.improved = TRUE,
                                     !.bestRoute = refiner.route]
  /\ UNCHANGED <<env, run, acc, est, calc>>

\* lines 124-125 and 140: the test of the while loop
RefWhile ==
  /\ refiner.pc = "while"
  /\ refiner' = IF refiner.improved
                THEN [refiner EXCEPT !.improved = FALSE, !.i = 1, !.pc = "for_i"]
                ELSE [refiner EXCEPT !.pc = "returned"]
  /\ UNCHANGED <<env, run, acc, est, calc>>

\* line 127: the test of the outer loop
RefForI ==
  /\ refiner.pc = "for_i"
  /\ refiner' = IF refiner.i < Len(refiner.bestRoute) - 2
                THEN [refiner EXCEPT !.j = refiner.i + 1, !.pc = "for_j"]
                ELSE [refiner EXCEPT !.pc = "while"]
  /\ UNCHANGED <<env, run, acc, est, calc>>

\* lines 128-136: the test of the inner loop and its body
RefForJ ==
  /\ refiner.pc = "for_j"
  /\ refiner' =
       IF refiner.j < Len(refiner.bestRoute) - 1
       THEN LET newRoute == TwoOptSwap(refiner.bestRoute, refiner.i, refiner.j)
            IN IF Adopts(newRoute, refiner.bestRoute, refiner.all, refiner.distanceMatrix)
               THEN [refiner EXCEPT !.bestRoute = newRoute, !.improved = TRUE,
                                    !.j = refiner.j + 1]
               ELSE [refiner EXCEPT !.j = refiner.j + 1]
       ELSE [refiner EXCEPT !.i = refiner.i + 1, !.pc = "for_i"]
  /\ UNCHANGED <<env, run, acc, est, calc>>

\* the caller hands the returned route to the refiner once more
RefAgain ==
  /\ refiner.pc = "returned"
  /\ refiner.application = 1
  /\ refiner' = [refiner EXCEPT !.pc = "call", !.application = 2,
                                !.route = refiner.bestRoute]
  /\ UNCHANGED <<env, run, acc, est, calc>>

Refine == RefStart \/ RefWhile \/ RefForI \/ RefForJ \/ RefAgain

\* ------------------------------------------------------------ specification

\* one run of the engine on a request list of a caller's choice
Init ==
  /\ env \in [apiKey : BOOLEAN, now : {600}]
  /\ \E addresses \in RequestLists(MaxLen), vehicle \in Vehicles :
       run = [r \in Runs |-> IF r = 1 THEN NewRun(addresses, vehicle) ELSE IdleRun]
  /\ acc = [r \in Runs |-> ZeroAcc]
  /\ refiner = IdleRefiner
  /\ est = IdleEst
  /\ calc = IdleCalc

Next == Engine(1)

Spec == Init /\ [][Next]_vars

\* a run entered through the component, or optimizeDeliveryRoute called
\* directly with a list at the size limit
InitIngest ==
  /\ env \in [apiKey : BOOLEAN, now : {600}]
  /\ \E vehicle \in Vehicles :
       \/ \E rows \in Sheets :
            run = [r \in Runs |->
                     IF r = 1
                     THEN [IdleRun EXCEPT !.pc = "prepare", !.rows = rows,
                                          !.vehicle = vehicle]
                     ELSE IdleRun]
       \/ \E addresses \in LongLists :
            run = [r \in Runs |-> IF r = 1 THEN NewRun(addresses, vehicle) ELSE IdleRun]
  /\ acc = [r \in Runs |-> ZeroAcc]
  /\ refiner = IdleRefiner
  /\ est = IdleEst
  /\ calc = IdleCalc

NextIngest == Prepare(1) \/ Engine(1)

SpecIngest == InitIngest /\ [][NextIngest]_vars

\* one call of the travel-cost estimator on a pair of the caller's choice
InitCost ==
  /\ env \in [apiKey : BOOLEAN, now : {600}]
  /\ run = [r \in Runs |-> IdleRun]
  /\ acc = [r \in Runs |-> ZeroAcc]
  /\ refiner = IdleRefiner
  /\ \E origin \in Endpoints, destination \in Endpoints :
       est = [IdleEst EXCEPT !.pc = "call", !.origin = origin,
                             !.destination = destination, !.key = env.apiKey]
  /\ calc = IdleCalc

NextCost == Estimate

SpecCost == InitCost /\ [][NextCost]_vars

\* the requests two concurrent callers choose from
ConcCatalog ==
  {Request(<<"A">>, "urgent", Some(1), Some(0), Some(5)),
   Request(<<"B">>, "high", Some(2), Some(200), Some(60)),
   Request(<<"c">>, "medium", None, None, Some(1)),
   Request(<<" ", "a", " ">>, "low", Some(4), Some(0), Some(5))}

Reverse(s) == [k \in 1..Len(s) |-> s[Len(s) + 1 - k]]

\* two runs in flight at once: the second on the same request objects in the
\* opposite order, or on a list of its own, each with its own vehicle
InitConc ==
  /\ env \in [apiKey : BOOLEAN, now : {600}]
  /\ \E first \in {WithIds(s) : s \in ListsUpTo(ConcCatalog, MaxConcLen)} :
       \E second \in {Reverse(first),
                      WithIds(<<Request(<<"D">>, "low", Some(3), Some(0), None)>>)} :
         run = [r \in Runs |-> IF r = 1 THEN NewRun(first, Vehicle(25, 0, 35))
                                        ELSE NewRun(second, Vehicle(5, 1, 40))]
  /\ acc = [r \in Runs |-> ZeroAcc]
  /\ refiner = IdleRefiner
  /\ est = IdleEst
  /\ calc = IdleCalc

NextConc == Engine(1) \/ Engine(2)

SpecConc == InitConc /\ [][NextConc]_vars

\* the refiner applied to a route over a distance matrix, and once more to
\* what it returned
InitRefine ==
  /\ env = [apiKey |-> FALSE, now |-> 600]
  /\ run = [r \in Runs |-> IdleRun]
  /\ acc = [r \in Runs |-> ZeroAcc]
  /\ est = IdleEst
  /\ calc = IdleCalc
  /\ \E n \in 1..MaxRoute :
       \E route \in RoutesOf(n), kind \in MatrixKinds :
         refiner = [IdleRefiner EXCEPT
                      !.pc = "call", !.route = route, !.all = Nodes(n),
                      !.distanceMatrix = MatrixOf(kind, n), !.input = route,
                      !.application = 1]

NextRefine == Refine

SpecRefine == InitRefine /\ [][NextRefine]_vars

\* ------------------------------------------------ properties of the engine

Finished(r) == run[r].pc = "done"

StopsOf(r) == Val(run[r].result).stops

\* the requests of the stops, in route order
StopOrder(r) == [k \in 1..Len(StopsOf(r)) |-> StopsOf(r)[k].address]

Resolved(r) ==
  {k \in 1..Len(run[r].geocodingResults) : IsSome(run[r].geocodingResults[k])}

\* C1: in every returned route the stops are exactly the deduplicated requests
\* whose geocoding succeeded, one stop each, and stop number k is the k-th
\* element of the stop list (orders 1..N).
C1_StopsAreTheGeocodedRequests ==
  \A r \in Runs : Finished(r) =>
    /\ Len(StopsOf(r)) = Cardinality(Resolved(r))
    /\ {StopsOf(r)[k].address.id : k \in 1..Len(StopsOf(r))}
         = {run[r].uniqueAddresses[k].id : k \in Resolved(r)}
    /\ \A k \in 1..Len(StopsOf(r)) :
         /\ StopsOf(r)[k].order = k
         /\ IsSome(StopsOf(r)[k].address.coordinates)

\* a route of three stops or more returned although an address failed
C1_Witness ==
  \E r \in Runs :
    /\ Finished(r)
    /\ Len(StopsOf(r)) >= 3
    /\ run[r].failedAddresses # <<>>

\* C2: a run fails only when the deduplicated list is empty or every request
\* failed geocoding; in every other case it has a next step to take until it
\* ends with a route.
C2_FailsOnlyWithoutAnyStop ==
  \A r \in Runs :
    /\ run[r].pc = "failed" =>
         \/ run[r].uniqueAddresses = <<>>
         \/ /\ Len(run[r].geocodingResults) = Len(run[r].uniqueAddresses)
            /\ Resolved(r) = {}
    /\ run[r].pc = "geocoding" => Len(run[r].geocodingResults) < Len(run[r].uniqueAddresses)
    /\ run[r].pc = "geocoded" => Len(run[r].geocodingResults) = Len(run[r].uniqueAddresses)
    /\ run[r].pc \in {"constructed", "legs", "finish"} =>
         /\ Resolved(r) # {}
         /\ Len(run[r].optimizedAddresses) = Cardinality(Resolved(r))
    /\ run[r].pc = "legs" => run[r].i \in 1..(Len(run[r].optimizedAddresses) - 1)
    /\ Finished(r) => IsSome(run[r].result)

\* a route returned although an address failed geocoding, a distance call was
\* rejected and the load is too heavy for the vehicle
C2_Witness ==
  \E r \in Runs :
    /\ Finished(r)
    /\ run[r].failedAddresses # <<>>
    /\ ~Val(run[r].loadValidation).canCarry
    /\ \E k \in 1..Len(run[r].legs) :
         run[r].legs[k].called /\ run[r].legs[k].resp.fetch = "rejected"

\* C4: after deduplication no two candidates have the same trimmed,
\* lower-cased text, every request has a candidate with its text, each
\* candidate is the first request with that text, unchanged, and the
\* candidates are in input order.
C4_DedupKeepsFirstOccurrence ==
  \A r \in Runs : run[r].pc \notin {"idle", "prepare", "start"} =>
    LET a == run[r].addresses
        u == run[r].uniqueAddresses
    IN /\ \A i, j \in 1..Len(u) :
            i < j => /\ NormalizedText(u[i].original) # NormalizedText(u[j].original)
                     /\ u[i].id < u[j].id
       /\ \A i \in 1..Len(a) :
            \E k \in 1..Len(u) :
              NormalizedText(u[k].original) = NormalizedText(a[i].original)
       /\ \A k \in 1..Len(u) :
            /\ u[k].id \in 1..Len(a)
            /\ u[k] = a[u[k].id]
            /\ \A j \in 1..(u[k].id - 1) :
                 NormalizedText(a[j].original) # NormalizedText(u[k].original)

\* two requests that differ in spelling and metadata collapsed into one stop
C4_Witness ==
  \E r \in Runs :
    /\ Finished(r)
    /\ \E i, j \in 1..Len(run[r].addresses) :
         /\ i < j
         /\ run[r].addresses[i].original # run[r].addresses[j].original
         /\ run[r].addresses[i].priority # run[r].addresses[j].priority
         /\ NormalizedText(run[r].addresses[i].original)
              = NormalizedText(run[r].addresses[j].original)
         /\ \E k \in 1..Len(StopsOf(r)) : StopsOf(r)[k].address.id = i

\* every address text the returned route carries
TextsOfRoute(route) == {route.stops[k].address.original : k \in 1..Len(route.stops)}

\* C6: when some but not all requests fail geocoding the run returns a route,
\* and the texts of the failed addresses are part of what is returned.
C6_FailedAddressesReported ==
  \A r \in Runs :
    /\ (run[r].pc = "failed" /\ run[r].uniqueAddresses # <<>>) => Resolved(r) = {}
    /\ Finished(r) => Range(run[r].failedAddresses) \subseteq TextsOfRoute(Val(run[r].result))

\* the haversine length of an order of located requests
LengthOf(order) ==
  CalculateTotalDistanceFromMatrix(order, order, HaversineMatrix(order, order))

ImprovingReversals(order) ==
  {p \in (1..(Len(order) - 3)) \X (2..(Len(order) - 2)) :
     p[1] < p[2] /\ LengthOf(TwoOptSwap(order, p[1], p[2])) < LengthOf(order)}

C8_CumulativeNonDecreasing ==
  \A r \in Runs :
    Finished(r) =>
      \A k \in 1..(Len(StopsOf(r)) - 1) :
        /\ StopsOf(r)[k].cumulativeDistance <= StopsOf(r)[k + 1].cumulativeDistance
        /\ StopsOf(r)[k].cumulativeTime <= StopsOf(r)[k + 1].cumulativeTime

\* --------------------------------------------- properties of the ingestion

RejectedForSize(r) ==
  run[r].pc = "rejected" /\ run[r].error = Some(TooManyAddresses)

\* the rows of the sheet that have an address
NonBlankRows(r) == Cardinality({i \in 1..Len(run[r].rows) : HasAddress(run[r].rows[i])})

\* C3 (as claimed): a run is rejected for its size exactly when its stop
\* count, the number of deduplicated deliveries, exceeds 25.
C3_RejectedByStopCount ==
  \A r \in Runs : run[r].pc \notin {"idle", "prepare"} =>
    (RejectedForSize(r) <=> Len(UniqueAddresses(run[r].addresses)) > MaxDeliveries)

\* C3 (amended): the size limit is the component's: a run is rejected for its
\* size, before any deduplication or geocoding, exactly when it was entered
\* through the component with more than 25 rows that have an address,
\* duplicates counted; optimizeDeliveryRoute called directly fails for no
\* other reason than an empty list or a geocoding that resolved nothing.
C3_RejectedByRowCount ==
  \A r \in Runs : run[r].pc \notin {"idle", "prepare"} =>
    /\ RejectedForSize(r) <=> NonBlankRows(r) > MaxDeliveries
    /\ RejectedForSize(r) =>
         run[r].uniqueAddresses = <<>> /\ run[r].geocodingResults = <<>>
    /\ run[r].pc = "failed" =>
         \/ UniqueAddresses(run[r].addresses) = <<>>
         \/ /\ Len(run[r].geocodingResults) = Len(run[r].uniqueAddresses)
            /\ Resolved(r) = {}

\* a sheet of more than 25 rows refused although it holds 25 deliveries or
\* fewer once duplicates are removed
C3_Witness ==
  \E r \in Runs :
    /\ RejectedForSize(r)
    /\ Len(run[r].rows) > MaxDeliveries
    /\ Len(UniqueAddresses(run[r].addresses)) <= MaxDeliveries

\* ---------------------------------- properties of the travel-cost estimator

\* the payload has every part the estimator reads
WellFormed(payload) ==
  /\ IsSome(payload.rows)
  /\ Val(payload.rows) # <<>>
  /\ IsSome(Val(payload.rows)[1].elements)
  /\ Val(Val(payload.rows)[1].elements) # <<>>
  /\ LET element == Val(Val(payload.rows)[1].elements)[1]
     IN element.status = "OK" =>
          /\ IsSome(element.duration) /\ IsSome(Val(element.duration).value)
          /\ IsSome(element.distance) /\ IsSome(Val(element.distance).value)

\* the cases in which the claim promises the closed-form estimate
MustFallBack(call) ==
  \/ ~call.key
  \/ ~IsSome(call.origin.coordinates)
  \/ ~IsSome(call.destination.coordinates)
  \/ call.resp.fetch = "rejected"
  \/ ~call.resp.httpOk
  \/ ~IsSome(call.resp.body)
  \/ Val(call.resp.body).status # "OK"
  \/ ~WellFormed(Val(call.resp.body))
  \/ Val(Val(Val(call.resp.body).rows)[1].elements)[1].status # "OK"

\* C5: calculateDistanceWithTraffic never raises, and without a key, without
\* a coordinate, on a rejected call, a non-OK HTTP status, a non-OK payload
\* status or a malformed payload what it returns is the closed-form estimate.
C5_FallbackOnEveryFailure ==
  est.pc = "returned" =>
    LET outcome == Val(est.result)
        km == CalculateHaversineDistance(LatOrZero(est.origin), LngOrZero(est.origin),
                                         LatOrZero(est.destination), LngOrZero(est.destination))
    IN /\ ~outcome.threw
       /\ MustFallBack(est) => Val(outcome.cost) = FallbackCost(km)

\* ------------------------------------------ properties of concurrent runs

\* lines 259-290, the legs from the i-th on, costed by the given answers
RECURSIVE Walk(_, _, _, _, _)
Walk(optimized, key, answers, i, totals) ==
  IF i > Len(optimized) - 1 THEN totals
  ELSE Walk(optimized, key, answers, i + 1,
            Advance(totals,
                    Val(CalculateDistanceWithTraffic(optimized[i], optimized[i + 1],
                                                     key, answers[i]).cost),
                    optimized[i + 1], i))

\* optimizeDeliveryRoute run from its first line to its last with nothing in
\* between: the route it returns for the given geocoding results and
\* provider answers
RunAlone(addresses, vehicle, key, now, results, answers) ==
  LET unique == UniqueAddresses(addresses)
      geocoded == Geocoded(unique, results)
      load == ValidateVehicleLoad(geocoded, vehicle)
      optimized == RouteOrder(geocoded, now)
      first == [ZeroAcc EXCEPT !.stops = <<Stop(optimized[1], 0, 0, ZeroAcc)>>]
  IN RouteOf(Walk(optimized, key, answers, 1, first), load, optimized, vehicle, now)

AnswersOf(r) == [k \in 1..Len(run[r].legs) |-> run[r].legs[k].resp]

ReturnsWhatItWouldAlone ==
  \A r \in Runs :
    /\ Finished(r) =>
         Val(run[r].result) = RunAlone(run[r].addresses, run[r].vehicle, env.apiKey,
                                       env.now, run[r].geocodingResults, AnswersOf(r))
    /\ run[r].pc = "failed" =>
         \/ UniqueAddresses(run[r].addresses) = <<>>
         \/ Geocoded(UniqueAddresses(run[r].addresses), run[r].geocodingResults) = <<>>

LeavesInputsAlone ==
  \A r \in Runs : run'[r].addresses = run[r].addresses /\ run'[r].vehicle = run[r].vehicle

\* C9: two runs that interleave at their suspension points each return the
\* route they would return alone on the same inputs, geocoding results and
\* provider answers (and fail only where they would fail alone), and no step
\* of either run changes a request list or a vehicle.
C9_RunsAreIndependent == []ReturnsWhatItWouldAlone /\ [][LeavesInputsAlone]_vars

\* run 1 has returned a route of two stops while run 2, in flight since
\* before, is suspended in a distance call with totals of its own
C9_Witness ==
  /\ Finished(1)
  /\ Len(StopsOf(1)) >= 2
  /\ run[1].legs[1].called
  /\ run[2].pc = "legs"
  /\ acc[2].stops # <<>>
  /\ acc[2].stops[1].address.id # StopsOf(1)[1].address.id

\* ------------------------------------------------ properties of the refiner

TotalOf(route) ==
  CalculateTotalDistanceFromMatrix(route, refiner.all, refiner.distanceMatrix)

\* C10: the route the refiner holds, and so the one it returns, is never
\* longer than its input, and the refiner applied to its own output returns
\* that output.
C10_RefinerNeverLengthens ==
  refiner.pc \in {"while", "for_i", "for_j", "returned"} =>
    /\ TotalOf(refiner.bestRoute) <= TotalOf(refiner.route)
    /\ TotalOf(refiner.bestRoute) <= TotalOf(refiner.input)
    /\ (refiner.pc = "returned" /\ refiner.application = 2) =>
         refiner.bestRoute = refiner.route

\* the second application has returned, the first having shortened a route
\* of five addresses or more over a one-way matrix
C10_Witness ==
  /\ refiner.pc = "returned"
  /\ refiner.application = 2
  /\ Len(refiner.input) >= 5
  /\ refiner.distanceMatrix[1][2] # refiner.distanceMatrix[2][1]
  /\ TotalOf(refiner.bestRoute) < TotalOf(refiner.input)

\* ------------------------------------------------ a call of the load validator

\* most requests of a validated load
MaxLoad == 3

\* requests by weight: none given, light, and heavy enough to fill a vehicle
LoadCatalog ==
  {Request(<<"A">>, "medium", w, None, None) :
     w \in {None, Some(1), Some(12), Some(13), Some(25)}}

LoadLists == {WithIds(s) : s \in SeqsUpTo(LoadCatalog, MaxLoad)}

\* vehicles: empty, part loaded, loaded to the limit, and loaded beyond it
\* (the setup form checks neither field against the other)
LoadVehicles ==
  {Vehicle(maxWeight, currentLoad, 35) : maxWeight \in {25, 5}, currentLoad \in {0, 1, 5, 6}}

\* one call of validateVehicleLoad
Validate ==
  /\ calc.pc = "call"
  /\ calc.fn = "validateVehicleLoad"
  /\ calc' = [calc EXCEPT !.pc = "returned",
                          !.result = Some(ValidateVehicleLoad(calc.addresses, calc.vehicle))]
  /\ UNCHANGED <<env, run, acc, refiner, est>>

InitLoad ==
  /\ env = [apiKey |-> FALSE, now |-> 600]
  /\ run = [r \in Runs |-> IdleRun]
  /\ acc = [r \in Runs |-> ZeroAcc]
  /\ refiner = IdleRefiner
  /\ est = IdleEst
  /\ \E addresses \in LoadLists, vehicle \in LoadVehicles :
       calc = [IdleCalc EXCEPT !.pc = "call", !.fn = "validateVehicleLoad",
                               !.addresses = addresses, !.vehicle = vehicle]

NextLoad == Validate

SpecLoad == InitLoad /\ [][NextLoad]_vars

\* the weight a request counts for: its own, 1 kg when it has none
CountedWeight(a) == IF IsSome(a.packageWeight) THEN Val(a.packageWeight) ELSE 1

\* C11: the load is reported feasible exactly when the total package weight
\* is at most maxWeight - currentLoad, and when it is not the first advisory
\* gives the overage (total minus available capacity, to one decimal) and the
\* second suggests several trips or a larger vehicle.
C11_FeasibleIffWithinCapacity ==
  (calc.pc = "returned" /\ calc.fn = "validateVehicleLoad") =>
    LET load == Val(calc.result)
        total == SumSeq([i \in 1..Len(calc.addresses) |-> CountedWeight(calc.addresses[i])])
        available == calc.vehicle.maxWeight - calc.vehicle.currentLoad
    IN /\ load.totalWeight = total
       /\ load.canCarry <=> total <= available
       /\ ~load.canCarry =>
            /\ Len(load.recommendations) >= 2
            /\ load.recommendations[1]
                 = Advice("Overweight by (tenths of kg)", 10 * (total - available))
            /\ load.recommendations[2]
                 = Advice("Consider multiple trips or larger vehicle", 0)

\* 26 kg on an empty 25 kg vehicle: infeasible, 1.0 kg over
C11_Witness ==
  /\ calc.pc = "returned"
  /\ calc.fn = "validateVehicleLoad"
  /\ calc.vehicle.maxWeight = 25
  /\ calc.vehicle.currentLoad = 0
  /\ Val(calc.result).totalWeight = 26
  /\ ~Val(calc.result).canCarry
  /\ Val(calc.result).recommendations[1].n = 10

\* ------------------------------------------------- a call of the priority score

\* a time window "HH:MM"-"HH:MM", split at the colon into numbers
Window(startHour, startMin, endHour, endMin) ==
  [start |-> <<startHour, startMin>>, end |-> <<endHour, endMin>>]

\* requests by priority tag, time window (none, an hour, a single minute) and
\* cash to collect (none, nothing, below the cap, at the cap, above it)
ScoreCatalog ==
  {[Request(<<"A">>, p, None, cod, None) EXCEPT !.timeWindow = w] :
     p \in {"urgent", "high", "medium", "low"},
     w \in {None, Some(Window(9, 0, 10, 0)), Some(Window(9, 30, 9, 30))},
     cod \in {None, Some(0), Some(200), Some(2000), Some(2500)}}

\* clock times, in minutes of the day: long before a window, 150, 140 and 1
\* minute before 09:00, on its ends, inside and after it
ScoreTimes == {0, 390, 400, 539, 540, 570, 600, 601, 1439}

\* one call of calculatePriorityScore
Score ==
  /\ calc.pc = "call"
  /\ calc.fn = "calculatePriorityScore"
  /\ calc' = [calc EXCEPT !.pc = "returned",
                          !.result = Some(CalculatePriorityScore(calc.addresses[1], env.now))]
  /\ UNCHANGED <<env, run, acc, refiner, est>>

InitScore ==
  /\ \E now \in ScoreTimes : env = [apiKey |-> FALSE, now |-> now]
  /\ run = [r \in Runs |-> IdleRun]
  /\ acc = [r \in Runs |-> ZeroAcc]
  /\ refiner = IdleRefiner
  /\ est = IdleEst
  /\ \E a \in ScoreCatalog :
       calc = [IdleCalc EXCEPT !.pc = "call", !.fn = "calculatePriorityScore",
                               !.addresses = <<a>>]

NextScore == Score

SpecScore == InitScore /\ [][NextScore]_vars

Scored == calc.pc = "returned" /\ calc.fn = "calculatePriorityScore"

\* a low-priority request with no time window and 200 to collect
LowWithCod200 ==
  /\ Scored
  /\ calc.addresses[1].priority = "low"
  /\ calc.addresses[1].timeWindow = None
  /\ calc.addresses[1].cashOnDelivery = Some(200)

\* C12 as stated: a low-priority request with no time window and a
\* cash-on-delivery amount of 200 scores exactly 45 (25 plus a bonus of 20).
C12_LowWithCod200Scores45 ==
  LowWithCod200 => Val(calc.result) = 4500

\* C12 as the code has it: the cash bonus is min(20, amount / 100), so a
\* low-priority request with no time window scores 27 with 200 to collect
\* (bonus 2) and reaches 45 only from 2000 up, where the bonus is capped.
C12_LowWithCod200Scores27 ==
  (/\ Scored
   /\ calc.addresses[1].priority = "low"
   /\ calc.addresses[1].timeWindow = None
   /\ IsSome(calc.addresses[1].cashOnDelivery)) =>
     LET cod == Val(calc.addresses[1].cashOnDelivery)
     IN /\ cod = 200 => Val(calc.result) = 2700
        /\ Val(calc.result) = 4500 <=> cod >= 2000

C12_Witness == LowWithCod200 /\ Val(calc.result) = 2700

\* the terms of the score as the specification writes them, in hundredths
BaseOfTag(p) ==
  IF p = "urgent" THEN 10000 ELSE IF p = "high" THEN 7500
  ELSE IF p = "medium" THEN 5000 ELSE 2500

MinutesOf(hm) == 60 * hm[1] + hm[2]

BonusOfWindow(window, now) ==
  IF window = None THEN 0
  ELSE LET start == MinutesOf(Val(window).start)
           end == MinutesOf(Val(window).end)
       IN IF start <= now /\ now <= end THEN 2500
          ELSE IF now < start
               THEN (IF 1500 - 10 * (start - now) > 0 THEN 1500 - 10 * (start - now) ELSE 0)
               ELSE 0

BonusOfCod(cod) ==
  IF cod = None THEN 0 ELSE IF Val(cod) < 2000 THEN Val(cod) ELSE 2000

\* C13: for every request and clock time the score is base(priority) +
\* window bonus + min(20, codAmount / 100), with base 100/75/50/25, window
\* bonus 25 inside [start, end], max(0, 15 - minutesUntilStart / 10) before
\* start, 0 after end or without a window; an urgent request with no window
\* and no cash to collect scores exactly 100.
C13_ScoreIsBasePlusBonuses ==
  Scored =>
    LET a == calc.addresses[1]
    IN /\ Val(calc.result)
            = BaseOfTag(a.priority) + BonusOfWindow(a.timeWindow, env.now)
                + BonusOfCod(a.cashOnDelivery)
       /\ (a.priority = "urgent" /\ a.timeWindow = None /\ a.cashOnDelivery = None)
            => Val(calc.result) = 10000

\* 140 minutes before the window opens the bonus is 15 - 14 = 1; with 200 to
\* collect a high-priority request scores 75 + 1 + 2
C13_Witness ==
  /\ Scored
  /\ env.now = 400
  /\ calc.addresses[1].priority = "high"
  /\ calc.addresses[1].timeWindow = Some(Window(9, 0, 10, 0))
  /\ calc.addresses[1].cashOnDelivery = Some(200)
  /\ Val(calc.result) = 7800

\* ---------------------------------------- properties of the travel-cost estimate

\* the call returned what the provider's element said
FromProvider ==
  /\ est.pc = "returned"
  /\ ~TakesFallback(est.origin, est.destination, est.key)
  /\ ~ProviderAttempt(est.origin, est.destination, est.resp).threw

\* severe / heavy / moderate / light for the ratio t / d of two durations
LevelOfDurations(t, d) ==
  IF 10 * t > 15 * d THEN "severe"
  ELSE IF 10 * t > 13 * d THEN "heavy"
  ELSE IF 10 * t > 11 * d THEN "moderate"
  ELSE "light"

\* C14: on the live-provider path the traffic level is the class of the ratio
\* trafficDuration / baseDuration of the returned TravelCost (over 1.5 severe,
\* over 1.3 heavy, over 1.1 moderate, else light), also for a response that
\* carries no in-traffic duration.
C14_LevelIsClassOfReturnedRatio ==
  FromProvider =>
    LET cost == Val(Val(est.result).cost)
    IN (IsSome(cost.duration) /\ IsSome(cost.durationInTraffic)) =>
         cost.trafficLevel = LevelOfDurations(Val(cost.durationInTraffic), Val(cost.duration))

\* the call took the first return or the catch block
FellBack ==
  /\ est.pc = "returned"
  /\ \/ TakesFallback(est.origin, est.destination, est.key)
     \/ ProviderAttempt(est.origin, est.destination, est.resp).threw

\* the great-circle distance of the leg in km, a missing coordinate read as 0
LegKm ==
  LET lat(a) == IF a.coordinates = None THEN 0 ELSE Val(a.coordinates).lat
  IN Abs(lat(est.destination) - lat(est.origin))

KmBefore(r, k) ==
  Abs(Val(StopOrder(r)[k].coordinates).lat - Val(StopOrder(r)[k - 1].coordinates).lat)

ClaimedAdvisories(r) ==
  LET route == Val(run[r].result)
      urgent == Cardinality({k \in 1..Len(route.stops) :
                              route.stops[k].address.priority = "urgent"})
  IN Val(run[r].loadValidation).recommendations
     \o (IF route.trafficImpact.delayMinutes > 30
         THEN <<Advice("Heavy traffic detected - consider alternative departure time", 0)>>
         ELSE <<>>)
     \o (IF Len(route.stops) > 15
         THEN <<Advice("Large delivery batch - consider splitting into multiple routes", 0)>>
         ELSE <<>>)
     \o (IF urgent >= 1
         THEN <<Advice("urgent deliveries - prioritized in route", urgent)>>
         ELSE <<>>)

\* C17: the recommendations are, in this order, the load validator's
\* advisories, the departure-time advisory iff the reported (rounded)
\* trafficImpact.delayMinutes exceeds 30, the split advisory iff there are
\* more than 15 stops, and the urgent-count advisory iff a stop is urgent.
C17_AdvisoriesByReportedDelay ==
  \A r \in Runs : Finished(r) => Val(run[r].result).recommendations = ClaimedAdvisories(r)

\* ------------------------------------------------ a call of the route constructor

\* most requests handed to the constructor
MaxPool == 4

\* requests of two priority tags: geocoded ones at km 0, 10 and 20 of a
\* meridian, so that scores tie, candidates lie equally far from a tail, and
\* a nearer request of lower priority can outscore a farther one of higher
\* priority; and ones without coordinates
PoolCatalog ==
  {[Request(<<p>>, p, None, None, None)
      EXCEPT !.coordinates = Some([lat |-> km, lng |-> 0]), !.formatted = Some(<<p>>)] :
     p \in {"high", "medium"}, km \in {0, 10, 20}}
  \cup {Request(<<p>>, p, None, None, None) : p \in {"high", "medium"}}

PoolLists == {WithIds(s) : s \in ListsUpTo(PoolCatalog, MaxPool)}

\* lines 134-143: a short list is returned as it is, else the list is sorted
\* and the route seeded
ConStart ==
  /\ calc.pc = "call"
  /\ calc.fn = "optimizeRouteAlgorithm"
  /\ IF Len(calc.addresses) <= 2
     THEN calc' = [calc EXCEPT !.pc = "returned", !.result = Some(calc.addresses)]
     ELSE LET prioritySorted == SortByPriority(calc.addresses, env.now)
          IN calc' = [calc EXCEPT !.pc = "while",
                                  !.route = <<prioritySorted[1]>>,
                                  !.remaining = Tail(prioritySorted)]
  /\ UNCHANGED <<env, run, acc, refiner, est>>

\* lines 145-175: one iteration of while (remaining.length > 0)
ConStep ==
  /\ calc.pc = "while"
  /\ calc.remaining # <<>>
  /\ LET current == calc.route[Len(calc.route)]
         bestIndex == BestIndex(current, calc.remaining, env.now)
     IN calc' = [calc EXCEPT !.route = Append(@, calc.remaining[bestIndex]),
                             !.remaining = RemoveAt(@, bestIndex)]
  /\ UNCHANGED <<env, run, acc, refiner, est>>

\* lines 145 and 178: the pool is empty, the route is returned
ConReturn ==
  /\ calc.pc = "while"
  /\ calc.remaining = <<>>
  /\ calc' = [calc EXCEPT !.pc = "returned", !.result = Some(calc.route)]
  /\ UNCHANGED <<env, run, acc, refiner, est>>

Construct == ConStart \/ ConStep \/ ConReturn

InitConstruct ==
  /\ env = [apiKey |-> FALSE, now |-> 600]
  /\ run = [r \in Runs |-> IdleRun]
  /\ acc = [r \in Runs |-> ZeroAcc]
  /\ refiner = IdleRefiner
  /\ est = IdleEst
  /\ \E addresses \in PoolLists :
       calc = [IdleCalc EXCEPT !.pc = "call", !.fn = "optimizeRouteAlgorithm",
                               !.addresses = addresses]

NextConstruct == Construct

SpecConstruct == InitConstruct /\ [][NextConstruct]_vars

\* the route a call returns is the one the function computes in one piece
ConstructsTheRoute ==
  (calc.pc = "returned" /\ calc.fn = "optimizeRouteAlgorithm") =>
    Val(calc.result) = OptimizeRouteAlgorithm(calc.addresses, env.now)

\* the priority score of a request with neither time window nor cash
TagScore(a) == BaseOfTag(a.priority)

\* the first of the input's requests that have the highest score
FirstOfTheBest(addresses) ==
  LET best == {i \in 1..Len(addresses) :
                 \A j \in 1..Len(addresses) : TagScore(addresses[j]) <= TagScore(addresses[i])}
  IN addresses[CHOOSE i \in best : \A j \in best : i <= j]

\* C18: for 3 or more geocoded requests the first stop the constructor
\* produces is a request with the maximum priority score, and among those
\* tied for the maximum the one that comes first in the input order.
C18_SeedIsFirstOfHighestScore ==
  (/\ calc.fn = "optimizeRouteAlgorithm"
   /\ calc.pc \in {"while", "returned"}
   /\ Len(calc.addresses) >= 3) =>
     LET route == IF calc.pc = "returned" THEN Val(calc.result) ELSE calc.route
     IN route[1] = FirstOfTheBest(calc.addresses)

\* a returned route whose seed is not the first request of the input and is
\* tied for the highest score with a request that follows it in the input
C18_Witness ==
  /\ calc.pc = "returned"
  /\ calc.fn = "optimizeRouteAlgorithm"
  /\ Len(calc.addresses) >= 3
  /\ calc.addresses[1].priority = "medium"
  /\ \E i, j \in 2..Len(calc.addresses) :
       /\ i < j
       /\ calc.addresses[i].priority = "high"
       /\ calc.addresses[j].priority = "high"
       /\ Val(calc.result)[1] = calc.addresses[i]

\* 0.6 x priorityScore + 0.4 x max(0, 50 - 2 x km), in thousandths
Weighted(tail, candidate) ==
  LET km == Abs(Val(candidate.coordinates).lat - Val(tail.coordinates).lat)
      proximity == IF 5000 - 200 * km > 0 THEN 5000 - 200 * km ELSE 0
  IN 6 * TagScore(candidate) + 4 * proximity

\* the step appends the earliest of the pool's requests that maximize the
\* weighted score from the current tail, and takes it out of the pool
AppendsEarliestBest ==
  LET tail == calc.route[Len(calc.route)]
      pool == calc.remaining
      best == {i \in 1..Len(pool) :
                 \A j \in 1..Len(pool) : Weighted(tail, pool[j]) <= Weighted(tail, pool[i])}
      first == CHOOSE i \in best : \A j \in best : i <= j
  IN /\ calc'.route = Append(calc.route, pool[first])
     /\ calc'.remaining = [k \in 1..(Len(pool) - 1) |-> IF k < first THEN pool[k] ELSE pool[k + 1]]

\* C19: at every step of route construction after the seed, all requests
\* being geocoded, the request appended maximizes 0.6 x priorityScore +
\* 0.4 x max(0, 50 - 2 x km(current tail, candidate)) over the remaining
\* pool, and of several that tie for the maximum the earliest in pool order.
C19_AppendsBestOfPool ==
  [][(/\ calc.pc = "while"
      /\ calc'.pc = "while"
      /\ \A k \in 1..Len(calc.addresses) : calc.addresses[k].coordinates # None)
       => AppendsEarliestBest]_vars

\* a step that chose between two candidates 10 km either side of the tail
\* with equal scores, and one where the nearer request of lower priority won
C19_Witness ==
  /\ calc.pc = "returned"
  /\ calc.fn = "optimizeRouteAlgorithm"
  /\ Len(calc.addresses) = 4
  /\ \A k \in 1..4 : calc.addresses[k].coordinates # None
  /\ LET route == Val(calc.result)
         lat(k) == Val(route[k].coordinates).lat
     IN /\ lat(1) = 10 /\ lat(2) = 20 /\ lat(3) = 20 /\ lat(4) = 0
        /\ route[1].priority = "high" /\ route[2].priority = "high"
        /\ route[3].priority = "medium" /\ route[4].priority = "high"
        /\ route[2].id < route[4].id

\* ------------------------------------------------- termination of the refiner

\* one call of the refiner as optimizeRouteNearestNeighbor makes it: the route
\* is an order of all the addresses that begins with the first of them
InitTerminate ==
  /\ env = [apiKey |-> FALSE, now |-> 600]
  /\ run = [r \in Runs |-> IdleRun]
  /\ acc = [r \in Runs |-> ZeroAcc]
  /\ est = IdleEst
  /\ calc = IdleCalc
  /\ \E n \in 1..MaxRoute :
       \E route \in {s \in RoutesOf(n) : s[1] = 1}, kind \in MatrixKinds :
         refiner = [IdleRefiner EXCEPT
                      !.pc = "call", !.route = route, !.all = Nodes(n),
                      !.distanceMatrix = MatrixOf(kind, n), !.input = route,
                      !.application = 1]

NextTerminate == RefStart \/ RefWhile \/ RefForI \/ RefForJ

\* twoOptOptimization is synchronous: once called it runs until it returns
SpecTerminate == InitTerminate /\ [][NextTerminate]_vars /\ WF_vars(NextTerminate)

\* C20: the 2-opt refiner terminates for every route and every distance
\* matrix with non-negative, possibly infinite entries: every call eventually
\* returns, and a call that entered the loop returns after a full pass that
\* adopted no reversal.
C20_RefinerTerminates ==
  /\ (refiner.pc = "call") ~> (refiner.pc = "returned")
  /\ []((refiner.pc = "returned" /\ Len(refiner.route) >= 4) => ~refiner.improved)

\* a call on 5 addresses that adopted a reversal, ran a further pass and
\* returned
C20_Witness ==
  /\ refiner.pc = "returned"
  /\ Len(refiner.route) = 5
  /\ refiner.bestRoute # refiner.route
  /\ ~refiner.improved

\* ------------------------------------------------ what the refiner leaves alone

\* how often x occurs in s
Occurrences(s, x) == Cardinality({k \in 1..Len(s) : s[k] = x})

\* t is s in another order
IsPermutationOf(t, s) ==
  /\ Len(t) = Len(s)
  /\ \A k \in 1..Len(s) : Occurrences(t, s[k]) = Occurrences(s, s[k])

\* C21: the refiner returns a route of fewer than 4 members unchanged, and
\* for every longer route its output is a permutation of the input whose
\* first and last members are the input's first and last members.
C21_RefinerKeepsEndsAndMembers ==
  refiner.pc = "returned" =>
    /\ Len(refiner.route) < 4 => refiner.bestRoute = refiner.route
    /\ Len(refiner.route) >= 4 =>
         /\ IsPermutationOf(refiner.bestRoute, refiner.route)
         /\ refiner.bestRoute[1] = refiner.route[1]
         /\ refiner.bestRoute[Len(refiner.route)] = refiner.route[Len(refiner.route)]

\* a route of five whose three interior members all changed place
C21_Witness ==
  /\ refiner.pc = "returned"
  /\ refiner.application = 1
  /\ Len(refiner.route) = 5
  /\ refiner.bestRoute[2] # refiner.route[2]
  /\ refiner.bestRoute[3] # refiner.route[3]
  /\ refiner.bestRoute[4] # refiner.route[4]

\* ------------------------------------------------ properties of the stop times

\* the minutes of service a stop is given
ServiceOfStop(stop) ==
  IF stop.address.estimatedDeliveryTime = None \/ stop.address.estimatedDeliveryTime = Some(0)
  THEN 5 ELSE Val(stop.address.estimatedDeliveryTime)

\* C22: the stop at 0-based index i has cumulativeTime = the traffic-adjusted
\* running total of legs 1..i plus i x the service minutes, which accounts
\* for the service time at every prior stop; the first stop has cumulative
\* distance 0 and cumulative time 0.  (Times in seconds.)
C22_CumulativeTimeCountsPriorService ==
  \A r \in Runs : Finished(r) =>
    /\ StopsOf(r)[1].cumulativeDistance = 0
    /\ StopsOf(r)[1].cumulativeTime = 0
    /\ \A k \in 1..Len(StopsOf(r)) :
         StopsOf(r)[k].cumulativeTime
           = SumSeq([l \in 1..(k - 1) |-> Val(run[r].legs[l].cost.durationInTraffic)])
             + 60 * SumSeq([m \in 1..(k - 1) |-> ServiceOfStop(StopsOf(r)[m])])

\* ------------------------------------------------ properties of the traffic impact

\* the aggregate traffic delay of a finished run, in seconds
AggregateDelay(r) ==
  SumSeq([l \in 1..Len(run[r].legs) |->
            Val(run[r].legs[l].cost.durationInTraffic) - Val(run[r].legs[l].cost.duration)])

\* the largest integer not above n / d, for d > 0
FloorDiv(n, d) == CHOOSE q \in -100..100 : q * d <= n /\ n < (q + 1) * d

\* C23: in every returned route trafficImpact.delayMinutes is the aggregate
\* traffic delay rounded to the nearest minute, and alternativeRoutes is
\* min(3, floor(delayMinutes / 15)) of that reported delayMinutes.
C23_AlternativesFromReportedDelay ==
  \A r \in Runs : Finished(r) =>
    LET impact == Val(run[r].result).trafficImpact
        byFifteen == FloorDiv(impact.delayMinutes, 15)
    IN /\ 2 * AggregateDelay(r) - 60 < 120 * impact.delayMinutes
       /\ 120 * impact.delayMinutes <= 2 * AggregateDelay(r) + 60
       /\ impact.alternativeRoutes = IF byFifteen < 3 THEN byFifteen ELSE 3

\* C30: in every returned route trafficImpact.alternativeRoutes is an integer
\* between 0 and 3 and trafficImpact.delayMinutes is not negative, for any
\* sequence of provider answers (also legs faster in traffic than without)
\* and fallback estimates.
C30_TrafficImpactInRange ==
  \A r \in Runs : Finished(r) =>
    /\ Val(run[r].result).trafficImpact.alternativeRoutes \in 0..3
    /\ Val(run[r].result).trafficImpact.delayMinutes >= 0

\* ------------------------------------ the external calls of a run, in order

\* most addresses handed to geocodeAddresses
MaxBatch == 11

\* const batchSize = 10
BatchSize == 10

\* n requests of different address texts, the first four at four places
WireLists ==
  {[i \in 1..n |->
      [Request(IF i <= 4 THEN <<Letters[i]>> ELSE TextNo(i), "medium", None, None, None)
         EXCEPT !.id = i]] : n \in 0..MaxBatch}

\* what the two geocoders do for one address: Google answers and OpenStreetMap
\* would, or Google fails and OpenStreetMap finds nothing
WireOutcomes == {<<"OK", "found">>, <<"rejected", "empty">>}

\* the waits and requests of one geocodeAddress call: delay(50), the Google
\* request when a key is configured, and delay(200) and the OpenStreetMap
\* request when there is no key or Google neither answered nor found nothing
GeocodeWire(key, google) ==
  <<"delay50">>
  \o (IF key THEN <<"google">> ELSE <<>>)
  \o (IF ~key \/ google \notin {"OK", "ZERO_RESULTS"} THEN <<"delay200", "osm">> ELSE <<>>)

\* geocodeAddresses, one address: the call of geocodeAddress, the push of its
\* result, and delay(500) after a batch that is not the last
GeoNext ==
  /\ calc.pc = "call"
  /\ calc.fn = "geocodeAddresses"
  /\ Len(calc.results) < Len(calc.addresses)
  /\ \E outcome \in WireOutcomes :
       LET k == Len(calc.results) + 1
           result == GeocodeAddress(calc.addresses[k].original, env.apiKey,
                                    outcome[1], outcome[2])
       IN calc' = [calc EXCEPT
                     !.results = Append(@, result),
                     !.wire = @ \o GeocodeWire(env.apiKey, outcome[1])
                                \o (IF k % BatchSize = 0 /\ k < Len(calc.addresses)
                                    THEN <<"delay500">> ELSE <<>>)]
  /\ UNCHANGED <<env, run, acc, refiner, est>>

\* geocodeAddresses returns and optimizeDeliveryRoute attaches the results
\* to the requests; it throws when none was located
GeoMerge ==
  /\ calc.pc = "call"
  /\ calc.fn = "geocodeAddresses"
  /\ Len(calc.results) = Len(calc.addresses)
  /\ LET geocodedAddresses == Geocoded(calc.addresses, calc.results)
     IN calc' = [calc EXCEPT
                   !.result = Some(calc.results),
                   !.route = geocodedAddresses,
                   !.i = 1,
                   !.pc = IF geocodedAddresses = <<>> THEN "failed"
                          ELSE IF Len(geocodedAddresses) = 1 THEN "returned" ELSE "legs"]
  /\ UNCHANGED <<env, run, acc, refiner, est>>

\* the metrics loop costs the leg to stop i: with a key and coordinates the
\* distance provider is requested at once
WireLeg ==
  /\ calc.pc = "legs"
  /\ calc' = [calc EXCEPT
                !.wire = IF TakesFallback(calc.route[calc.i], calc.route[calc.i + 1], env.apiKey)
                         THEN @ ELSE Append(@, "distance"),
                !.i = @ + 1,
                !.pc = IF calc.i + 1 = Len(calc.route) THEN "returned" ELSE "legs"]
  /\ UNCHANGED <<env, run, acc, refiner, est>>

InitWire ==
  /\ env \in [apiKey : BOOLEAN, now : {600}]
  /\ run = [r \in Runs |-> IdleRun]
  /\ acc = [r \in Runs |-> ZeroAcc]
  /\ refiner = IdleRefiner
  /\ est = IdleEst
  /\ \E addresses \in WireLists :
       calc = [IdleCalc EXCEPT !.pc = "call", !.fn = "geocodeAddresses",
                               !.addresses = addresses]

NextWire == GeoNext \/ GeoMerge \/ WireLeg

SpecWire == InitWire /\ [][NextWire]_vars

\* ------------------------------------------- properties of the external calls

IsCall(e) == e \in {"google", "osm", "distance"}
IsDelay(e) == e \in {"delay50", "delay200", "delay500"}

\* the addresses whose geocoding has begun before position p of the wire
BegunBefore(p) == Cardinality({q \in 1..(p - 1) : calc.wire[q] = "delay50"})

\* C24: every call to an external provider is throttled: each geocoding
\* request and each distance/traffic request comes after a delay since the
\* previous external call, and geocodeAddresses waits longer between
\* consecutive batches of 10 addresses and not after the last batch.
C24_EveryExternalCallThrottled ==
  /\ \A p \in 1..Len(calc.wire) :
       IsCall(calc.wire[p]) => (p > 1 /\ IsDelay(calc.wire[p - 1]))
  /\ \A p \in 1..Len(calc.wire) :
       calc.wire[p] = "delay500" =>
         /\ BegunBefore(p) > 0
         /\ BegunBefore(p) % 10 = 0
         /\ BegunBefore(p) < Len(calc.addresses)
  /\ \A p \in 2..Len(calc.wire) :
       (calc.wire[p] = "delay50" /\ BegunBefore(p) > 0 /\ BegunBefore(p) % 10 = 0)
         => calc.wire[p - 1] = "delay500"

\* the outcome of geocoding address k of the call
OutcomeOf(k) ==
  {None, Some(GeocodingResult(calc.addresses[k].original))}

\* the results so far are those of the first addresses, in order
Aligned ==
  /\ Len(calc.results) <= Len(calc.addresses)
  /\ \A k \in 1..Len(calc.results) : calc.results[k] \in OutcomeOf(k)
  /\ BegunBefore(Len(calc.wire) + 1) = Len(calc.results)
  /\ calc.pc \in {"legs", "returned", "failed"} =>
       /\ Val(calc.result) = calc.results
       /\ Len(calc.results) = Len(calc.addresses)
       /\ \A n \in 1..Len(calc.route) :
            LET a == calc.route[n]
            IN /\ calc.results[a.id] # None
               /\ a.coordinates = Some([lat |-> PlaceOf(a.original), lng |-> 0])
               /\ a.formatted = Some(NormalizedText(a.original))
               /\ a.original = calc.addresses[a.id].original

\* a step of the loop resolves the next address and keeps what is resolved
ResolvesNext ==
  (calc.pc = "call" /\ calc'.pc = "call") =>
    /\ Len(calc'.results) = Len(calc.results) + 1
    /\ SubSeq(calc'.results, 1, Len(calc.results)) = calc.results

\* C26: geocodeAddresses returns a list index-aligned with its input for
\* every input length and every pattern of failures: it has the length of
\* the input, entry k is the outcome of geocoding address k, each address is
\* resolved exactly once, and so the coordinates attached to a stop are those
\* resolved for the stop's own address text.
C26_ResultsAlignedWithInput ==
  []Aligned /\ [][ResolvesNext]_vars

\* eleven addresses, the first and the tenth not found, the second and the
\* eleventh located at their own places
C26_Witness ==
  /\ calc.fn = "geocodeAddresses"
  /\ calc.pc = "returned"
  /\ Len(calc.addresses) = 11
  /\ calc.results[1] = None
  /\ calc.results[10] = None
  /\ calc.results[2] = Some(GeocodingResult(<<"b">>))
  /\ calc.results[11] # None
  /\ calc.route[1].id = 2
  /\ Val(calc.route[1].coordinates).lat = 2

\* ------------------------------------------- what the constructor leaves alone

\* C25: optimizeRouteAlgorithm always returns a permutation of its input:
\* every request appears exactly once in the constructed order, none is
\* dropped or duplicated, also when some or all requests lack coordinates and
\* are skipped during candidate scoring.
C25_ConstructorReturnsPermutation ==
  calc.fn = "optimizeRouteAlgorithm" =>
    /\ calc.pc = "while" => IsPermutationOf(calc.route \o calc.remaining, calc.addresses)
    /\ calc.pc = "returned" => IsPermutationOf(Val(calc.result), calc.addresses)

\* a route of four built from a pool in which two requests have no
\* coordinates, one of them the seed
C25_Witness ==
  /\ calc.fn = "optimizeRouteAlgorithm"
  /\ calc.pc = "returned"
  /\ Len(calc.addresses) = 4
  /\ Val(calc.result)[1].coordinates = None
  /\ Cardinality({k \in 1..4 : calc.addresses[k].coordinates = None}) = 2
  /\ Val(calc.result) # calc.addresses

\* ------------------------------------------------ the shapes of the load advice

LoadReturned == calc.pc = "returned" /\ calc.fn = "validateVehicleLoad"

OverageAdvice(load, vehicle) ==
  Advice("Overweight by (tenths of kg)",
         10 * (load.totalWeight - (vehicle.maxWeight - vehicle.currentLoad)))

SplitAdvice == Advice("Consider multiple trips or larger vehicle", 0)

NearAdvice == Advice("Near capacity limit - plan for fuel efficiency", 0)

\* C27 as stated: for any request list and any vehicle the advisory list is
\* empty, or the near-capacity advisory alone, or the overage advisory, the
\* split-trips suggestion and the near-capacity advisory; so every infeasible
\* load also carries the near-capacity advisory.
C27_ThreeShapes ==
  LoadReturned =>
    LET load == Val(calc.result)
    IN /\ load.recommendations
            \in {<<>>, <<NearAdvice>>,
                 <<OverageAdvice(load, calc.vehicle), SplitAdvice, NearAdvice>>}
       /\ ~load.canCarry => load.recommendations[Len(load.recommendations)] = NearAdvice

\* C27 as the code has it: the near-capacity advisory is decided by the
\* quotient totalWeight / availableCapacity alone, so on a vehicle loaded
\* beyond its maximum weight (negative capacity) every load is infeasible and
\* gets the overage advisory and the split-trips suggestion without the
\* near-capacity advisory; with a capacity of 0 or more the shapes are the
\* three of the claim.
C27_FourShapes ==
  LoadReturned =>
    LET load == Val(calc.result)
        capacity == calc.vehicle.maxWeight - calc.vehicle.currentLoad
        over == <<OverageAdvice(load, calc.vehicle), SplitAdvice>>
    IN /\ capacity >= 0 => load.recommendations \in {<<>>, <<NearAdvice>>, over \o <<NearAdvice>>}
       /\ capacity >= 0 => (~load.canCarry => load.recommendations = over \o <<NearAdvice>>)
       /\ capacity < 0 => (~load.canCarry /\ load.recommendations = over)

\* a load of 1 kg on a vehicle of 5 kg that already carries 6
C27_Witness ==
  /\ LoadReturned
  /\ calc.vehicle.maxWeight = 5
  /\ calc.vehicle.currentLoad = 6
  /\ Val(calc.result).totalWeight = 1
  /\ Val(calc.result).recommendations = <<Advice("Overweight by (tenths of kg)", 20), SplitAdvice>>

\* ------------------------------------------------ the priority of a prepared row

PriorityTags == {"urgent", "high", "medium", "low"}

\* C29: a priority cell whose lower-cased text is exactly urgent, high, medium
\* or low yields a request with that same priority, and an absent cell yields
\* medium.
C29_NormalizationKeepsTheTags ==
  run[1].pc \in {"start", "rejected"} =>
    LET kept == SelectSeq(run[1].rows, HasAddress)
    IN \A k \in 1..Len(kept) :
         /\ k <= Len(run[1].addresses)
         /\ IF IsSome(kept[k].priority)
            THEN LowerWord(Val(kept[k].priority)) \in PriorityTags
                   => run[1].addresses[k].priority = LowerWord(Val(kept[k].priority))
            ELSE run[1].addresses[k].priority = "medium"

\* ------------------------------- the component while two runs are in flight

\* lines 113-124 of the component: the awaited run has settled; its result
\* goes to optimizedRoute or its message to error, and the spinner is taken
\* down.  Nothing tells the run of older inputs from the run of the latest.
Settle(r) ==
  /\ run[r].pc \in {"done", "failed"}
  /\ run' = [run EXCEPT ![r].pc = "settled"]
  /\ calc' = IF run[r].pc = "done"
             THEN [calc EXCEPT !.optimizedRoute = run[r].result, !.isOptimizing = FALSE]
             ELSE [calc EXCEPT !.error = run[r].error, !.isOptimizing = FALSE]
  /\ UNCHANGED <<env, acc, refiner, est>>

View(view, error, route) == [view |-> view, error |-> error, route |-> route]

\* lines 147-227 of the component: the spinner, else the error, else the route
Shown ==
  IF calc.isOptimizing THEN View("optimizing", None, None)
  ELSE IF IsSome(calc.error) THEN View("error", calc.error, None)
  ELSE View("route", None, calc.optimizedRoute)

\* the effect has run for the first inputs and, before that run settled, for
\* the latest inputs: run 1 and run 2 are in flight, the spinner is up, the
\* error is cleared and no route has been stored
InitShown ==
  /\ env \in [apiKey : BOOLEAN, now : {600}]
  /\ \E first \in {WithIds(<<Request(<<"A">>, "urgent", Some(1), Some(0), Some(5))>>),
                    WithIds(<<Request(<<"A">>, "urgent", Some(1), Some(0), Some(5)),
                              Request(<<"B">>, "high", Some(2), Some(200), Some(60))>>)} :
       \E second \in {WithIds(<<Request(<<"D">>, "low", Some(3), Some(0), None)>>),
                      Reverse(first)} :
         run = [r \in Runs |-> IF r = 1 THEN NewRun(first, Vehicle(25, 0, 35))
                                        ELSE NewRun(second, Vehicle(5, 1, 40))]
  /\ acc = [r \in Runs |-> ZeroAcc]
  /\ refiner = IdleRefiner
  /\ est = IdleEst
  /\ calc = [IdleCalc EXCEPT !.fn = "DeliveryRouteOptimization"]

NextShown == Engine(1) \/ Engine(2) \/ Settle(1) \/ Settle(2)

SpecShown == InitShown /\ [][NextShown]_vars

\* what the component shows for run r alone, once r has settled
OutcomeShown(r) ==
  IF IsSome(run[r].error) THEN View("error", run[r].error, None)
  ELSE View("route", None, run[r].result)

\* C28: the inputs changed while a run was in flight, starting a second run;
\* once both runs have settled the route or error shown is the outcome of the
\* run started for the latest inputs (run 2), whatever the order in which the
\* two complete.
C28_ShowsLatestRun ==
  (run[1].pc = "settled" /\ run[2].pc = "settled") => Shown = OutcomeShown(2)

====
